---- MODULE Spec2Model ----
(***************************************************************************)
(* fand: the server's shelf state machine, its request loop, the           *)
(* connection registry and the termination hook, as a state machine.       *)
(*                                                                         *)
(* Time is an integer count of instants (UTC).  Python values that travel  *)
(* in requests are tagged records, so that a handler can meet a value of   *)
(* the wrong type as the code does.                                        *)
(***************************************************************************)
EXTENDS Integers, Sequences, FiniteSets, TLC

\* ------------------------------------------------------------------ bounds

\* Last instant the clock reaches.
MaxTime == 2

\* Worker threads of daemon's ThreadPoolExecutor (its max_workers, which the
\* library derives from the number of processors).
MaxWorkers == 2

\* ------------------------------------------------------------------ values

None == [t |-> "none"]
Num(n) == [t |-> "num", n |-> n]
Str(s) == [t |-> "str", s |-> s]
\* A datetime: wall-clock reading, and the UTC offset of its tzinfo when aware.
Date(wall, aware, off) == [t |-> "date", wall |-> wall, aware |-> aware, off |-> off]
\* An argument tuple, as pickled with the request.
Tuple(items) == [t |-> "tuple", items |-> items]
\* A formatted message: the pieces of an f-string, in order.
Text(parts) == [t |-> "text", parts |-> parts]

\* UTC offset of the host's local zone: datetime.now().astimezone().tzinfo.
LocalOffset == 1

\* The instant an aware datetime denotes.
Instant(date) == date.wall - date.off

SetMax(S) == CHOOSE x \in S : \A y \in S : y <= x

\* ------------------------------------------------------------- exceptions

\* An exception: its class and str(error).
Exc(cls, text) == [cls |-> cls, text |-> text]
NoExc == Exc("", None)

\* The classes an exception class is an instance of (itself and its bases).
Bases(cls) ==
    CASE cls = "TerminatingError" -> {"TerminatingError", "FandError"}
      [] cls = "SendReceiveError" ->
            {"SendReceiveError", "CommunicationError", "FandError",
             "ConnectionError", "OSError"}
      [] cls = "CorruptedDataError" ->
            {"CorruptedDataError", "CommunicationError", "FandError",
             "ConnectionError", "OSError"}
      [] cls = "FandConnectionResetError" ->
            {"FandConnectionResetError", "CommunicationError", "FandError",
             "ConnectionResetError", "ConnectionError", "OSError"}
      [] cls = "FandTimeoutError" ->
            {"FandTimeoutError", "CommunicationError", "FandError",
             "TimeoutError", "OSError"}
      [] cls = "UnpicklableError" ->
            {"UnpicklableError", "CommunicationError", "FandError", "ValueError"}
      [] cls = "ShelfTemperatureBadValue" ->
            {"ShelfTemperatureBadValue", "FandError", "ValueError"}
      [] cls = "ShelfRpmBadValue" -> {"ShelfRpmBadValue", "FandError", "ValueError"}
      [] cls = "ShelfPwmBadValue" -> {"ShelfPwmBadValue", "FandError", "ValueError"}
      [] cls = "ShelfPwmExpireBadValue" ->
            {"ShelfPwmExpireBadValue", "FandError", "ValueError"}
      [] cls = "ShelfNotFoundError" ->
            {"ShelfNotFoundError", "FandError", "ValueError"}
      [] cls = "KeyError" -> {"KeyError", "LookupError"}
      [] OTHER -> {cls}

IsA(exc, base) == base \in Bases(exc.cls)

\* ------------------------------------------------------------------ Shelf

DeviceType == {"NONE", "HDD", "SSD", "CPU"}

\* Mutant of ShelfInit: a new shelf's fans are stopped.
ShelfInit_stopped == [pwm |-> 0, rpm |-> 0, pwm_override |-> None, pwm_expire |-> None]

\* Shelf.__init__: the fields of a new shelf.
ShelfInit == [pwm |-> 100, rpm |-> 0, pwm_override |-> None, pwm_expire |-> None]

\* Shelf.__init__: every curve needs a 0 key.
ShelfAccepts(temps) == \A ty \in DeviceType : 0 \in DOMAIN temps[ty]

\* Mutant of pwm_get: an expiry equal to the instant of the read still counts
\* as in the future.
pwm_get_ge(shelf, t) ==
    IF shelf.pwm_override # None
       /\ (shelf.pwm_expire = None \/ Instant(shelf.pwm_expire) >= t)
    THEN shelf.pwm_override.n
    ELSE shelf.pwm

\* Shelf.pwm (getter) read at instant t.
pwm_get(shelf, t) ==
    IF shelf.pwm_override # None
       /\ (shelf.pwm_expire = None \/ Instant(shelf.pwm_expire) > t)
    THEN shelf.pwm_override.n
    ELSE shelf.pwm

\* The result of a setter: the exception raised (NoExc when none) and the shelf.
Set(exc, shelf) == [exc |-> exc, shelf |-> shelf]

\* Mutant of rpm_set: the field is assigned before the value is checked.
rpm_set_unchecked(shelf, speed) ==
    IF speed.t # "num" THEN Set(Exc("TypeError", None), shelf)
    ELSE IF speed.n < 0
    THEN Set(Exc("ShelfRpmBadValue", Text(<<Str("RPM cannot be below zero")>>)),
             [shelf EXCEPT !.rpm = speed.n])
    ELSE Set(NoExc, [shelf EXCEPT !.rpm = speed.n])

\* Shelf.rpm (setter).
rpm_set(shelf, speed) ==
    IF speed.t # "num" THEN Set(Exc("TypeError", None), shelf)
    ELSE IF speed.n < 0
    THEN Set(Exc("ShelfRpmBadValue", Text(<<Str("RPM cannot be below zero")>>)), shelf)
    ELSE Set(NoExc, [shelf EXCEPT !.rpm = speed.n])

\* Mutant of pwm_set: the value is stored in the base field.
pwm_set_base(shelf, speed) ==
    IF speed = None THEN Set(NoExc, [shelf EXCEPT !.pwm_override = None])
    ELSE IF speed.t # "num" THEN Set(Exc("TypeError", None), shelf)
    ELSE IF speed.n < 0 \/ speed.n > 100
    THEN Set(Exc("ShelfPwmBadValue", Text(<<Str("PWM must be between 0 and 100")>>)),
             shelf)
    ELSE Set(NoExc, [shelf EXCEPT !.pwm = speed.n])

\* Shelf.pwm (setter).
pwm_set(shelf, speed) ==
    IF speed = None THEN Set(NoExc, [shelf EXCEPT !.pwm_override = None])
    ELSE IF speed.t # "num" THEN Set(Exc("TypeError", None), shelf)
    ELSE IF speed.n < 0 \/ speed.n > 100
    THEN Set(Exc("ShelfPwmBadValue", Text(<<Str("PWM must be between 0 and 100")>>)),
             shelf)
    ELSE Set(NoExc, [shelf EXCEPT !.pwm_override = speed])

\* Mutant of pwm_expire_set: clearing the expiry clears the override too.
pwm_expire_set_clearing(shelf, date, t) ==
    IF date = None
    THEN Set(NoExc, [shelf EXCEPT !.pwm_expire = None, !.pwm_override = None])
    ELSE IF date.t # "date" THEN Set(Exc("AttributeError", None), shelf)
    ELSE LET aware == IF date.aware THEN date
                      ELSE Date(date.wall, TRUE, LocalOffset)
         IN  IF Instant(aware) < t
             THEN Set(Exc("ShelfPwmExpireBadValue",
                          Text(<<date, Str(" is in the past")>>)), shelf)
             ELSE Set(NoExc, [shelf EXCEPT !.pwm_expire = aware])

\* Shelf.pwm_expire (setter) called at instant t.
pwm_expire_set(shelf, date, t) ==
    IF date = None THEN Set(NoExc, [shelf EXCEPT !.pwm_expire = None])
    ELSE IF date.t # "date" THEN Set(Exc("AttributeError", None), shelf)
    ELSE LET aware == IF date.aware THEN date
                      ELSE Date(date.wall, TRUE, LocalOffset)
         IN  IF Instant(aware) < t
             THEN Set(Exc("ShelfPwmExpireBadValue",
                          Text(<<date, Str(" is in the past")>>)), shelf)
             ELSE Set(NoExc, [shelf EXCEPT !.pwm_expire = aware])

\* Mutant of ClassSpeed: the speed of the highest threshold reached is taken,
\* as if the curve's speeds grew with its thresholds.
ClassSpeed_last(curve, temp) ==
    LET reached == {x \in DOMAIN curve : temp >= x}
    IN  IF reached = {} THEN curve[0] ELSE curve[SetMax(reached)]

\* Shelf.update: the speed one device class asks for at effective temperature temp.
ClassSpeed(curve, temp) ==
    LET speeds == {curve[th] : th \in {x \in DOMAIN curve : temp >= x}}
    IN  IF speeds = {} THEN curve[0] ELSE SetMax(speeds)

\* Shelf.update: the effective temperature of a device class in a reading.
EffectiveTemp(reading, ty) ==
    LET temp_list == {reading[d].temperature :
                        d \in {x \in DOMAIN reading : reading[x].type = ty}}
    IN  IF ty = "NONE" \/ temp_list = {} THEN 0 ELSE SetMax(temp_list)

\* Mutant of update: the update also clears the shelf's rpm.
update_clearing(shelf, temps, reading) ==
    [shelf EXCEPT !.rpm = 0, !.pwm =
        SetMax({ClassSpeed(temps[ty], EffectiveTemp(reading, ty)) : ty \in DeviceType})]

\* Shelf.update: the base PWM for one reading of the devices.
update(shelf, temps, reading) ==
    [shelf EXCEPT !.pwm =
        SetMax({ClassSpeed(temps[ty], EffectiveTemp(reading, ty)) : ty \in DeviceType})]

\* -------------------------------------------------------------- transport

HEADER_MAGIC_SIZE == 4
HEADER_DATA_SIZE == 4
HEADER_SIZE == HEADER_MAGIC_SIZE + HEADER_DATA_SIZE

\* class Request: the known request kinds.
Request == {"ack", "ping", "disconnect", "get_pwm", "set_pwm", "get_rpm",
            "set_rpm", "set_pwm_override", "set_pwm_expire"}

\* Unpickled first components that are no Request: a string, and a list
\* (a value that cannot be hashed).
WrongRequest == "wrong request"
ListRequest == "[]"
Hashable(request) == request # ListRequest

\* A frame on the wire.
Frame(request, items) == [request |-> request, args |-> Tuple(items)]

\* What a socket write can do: "ok", "timeout", "oserror", "short" (fewer
\* bytes written than the frame holds).
SendOutcomes == {"ok", "timeout", "oserror", "short"}

\* com.send on a socket whose handle is open or not: the exception raised
\* and the frames that reached the wire (the bytes of a short write are no frame).
send(open, request, items, how) ==
    IF ~open \/ how = "oserror"
    THEN [exc |-> Exc("SendReceiveError", None), wrote |-> <<>>]
    ELSE IF how = "timeout"
    THEN [exc |-> Exc("FandTimeoutError", None), wrote |-> <<>>]
    ELSE IF how = "short"
    THEN [exc |-> Exc("SendReceiveError", None), wrote |-> <<>>]
    ELSE [exc |-> NoExc, wrote |-> <<Frame(request, items)>>]

\* What a socket yields to one com.recv call.
\*   io     "data", or "timeout" / "oserror" raised by the header read
\*   hlen   bytes of header read
\*   magic  the first four bytes are HEADER_MAGIC
\*   hex    the next four parse as a base-16 number
\*   dio    "data", or "timeout" / "oserror" raised by the payload read
\*   p      what unpickling the payload gives: "pair" (a 2-tuple),
\*          "notpair", "unpickling" (PickleError), "eof" (EOFError)
Input(io, hlen, magic, hex, dio, p, request, args) ==
    [io |-> io, hlen |-> hlen, magic |-> magic, hex |-> hex, dio |-> dio,
     p |-> p, request |-> request, args |-> args]

Message(request, items) ==
    Input("data", HEADER_SIZE, TRUE, TRUE, "data", "pair", request, Tuple(items))

\* The result of com.recv: an exception, or (request, args).
Received(exc, request, args) == [exc |-> exc, request |-> request, args |-> args]
NoReq == Received(NoExc, "", None)
RecvRaise(cls) == Received(Exc(cls, None), "", None)

\* com.recv.
recv(in) ==
    IF in.io = "timeout" THEN RecvRaise("FandTimeoutError")
    ELSE IF in.io = "oserror" THEN RecvRaise("SendReceiveError")
    ELSE IF in.hlen = 0 THEN RecvRaise("FandConnectionResetError")
    ELSE IF in.hlen # HEADER_SIZE THEN RecvRaise("CorruptedDataError")
    ELSE IF ~in.hex THEN RecvRaise("ValueError")
    ELSE IF ~in.magic THEN RecvRaise("CorruptedDataError")
    ELSE IF in.dio = "timeout" THEN RecvRaise("FandTimeoutError")
    ELSE IF in.dio = "oserror" THEN RecvRaise("SendReceiveError")
    ELSE IF in.p = "unpickling" THEN RecvRaise("CorruptedDataError")
    ELSE IF in.p = "eof" THEN RecvRaise("EOFError")
    ELSE IF in.p = "notpair" THEN RecvRaise("CorruptedDataError")
    ELSE IF in.request = "disconnect"
    THEN IF in.args.t \notin {"tuple", "str"}
         THEN RecvRaise("TypeError")
         ELSE RecvRaise("FandConnectionResetError")
    ELSE Received(NoExc, in.request, in.args)

\* ------------------------------------------------- the bytes of a frame

\* HEADER_MAGIC = b'99F9', one character per byte.
HEADER_MAGIC == <<"9", "9", "F", "9">>

\* The sixteen digits format(n, 'x') writes, then the capitals that
\* int(s, base=16) reads as the last six of them.
HexChars == <<"0", "1", "2", "3", "4", "5", "6", "7", "8", "9",
              "a", "b", "c", "d", "e", "f", "A", "B", "C", "D", "E", "F">>

\* format(n, 'x').
RECURSIVE Hex(_)
Hex(n) ==
    IF n < 16 THEN <<HexChars[n + 1]>>
    ELSE Hex(n \div 16) \o <<HexChars[(n % 16) + 1]>>

\* str.zfill(width): zeros are added on the left, nothing is ever cut.
RECURSIVE zfill(_, _)
zfill(s, width) == IF Len(s) >= width THEN s ELSE zfill(<<"0">> \o s, width)

\* send: header_bytes for a payload of n bytes.
header_bytes(n) == HEADER_MAGIC \o zfill(Hex(n), HEADER_DATA_SIZE)

\* int(s, base=16) of a string of digits: its value, or -1 when int raises
\* ValueError.
RECURSIVE int16(_)
int16(s) ==
    IF s = <<>> THEN 0
    ELSE LET c == s[Len(s)]
             at == {i \in DOMAIN HexChars : HexChars[i] = c}
             digit == CHOOSE i \in at : TRUE
             high == int16(SubSeq(s, 1, Len(s) - 1))
         IN  IF at = {} \/ high = -1 THEN -1
             ELSE (high * 16) + (IF digit > 16 THEN digit - 7 ELSE digit - 1)

\* com.send, with the bytes it writes. The call m gives the request and its
\* arguments, what pickle.dumps does ("ok", or the class it raises), the
\* length of the pickled bytes, what sock.send does (SendOutcomes) and, for
\* a short write, the count it returns. The result is the exception raised,
\* the calls of sock.send made, and the bytes that reached the wire: the
\* header, the pickled (request, args) of `size` bytes, and how many bytes of
\* header + payload, counted from the first, the write took (0: none).
send_bytes(m) ==
    LET Sent(exc, writes, header, size, count) ==
            [exc |-> exc, writes |-> writes, header |-> header,
             data |-> Frame(m.request, m.items), size |-> size, count |-> count]
        header_bytes_ == header_bytes(m.size)
        whole == Len(header_bytes_) + m.size
        bytes_sent == IF m.how = "short" THEN m.count ELSE whole
    IN  IF m.pickling \in {"PicklingError", "TypeError", "ValueError"}
        THEN Sent(Exc("UnpicklableError", None), 0, <<>>, 0, 0)
        ELSE IF m.pickling # "ok"
        THEN Sent(Exc(m.pickling, None), 0, <<>>, 0, 0)
        ELSE IF m.how = "timeout"
        THEN Sent(Exc("FandTimeoutError", None), 1, header_bytes_, m.size, 0)
        ELSE IF m.how = "oserror"
        THEN Sent(Exc("SendReceiveError", None), 1, header_bytes_, m.size, 0)
        ELSE Sent(IF bytes_sent # HEADER_SIZE + m.size
                  THEN Exc("SendReceiveError", None) ELSE NoExc,
                  1, header_bytes_, m.size, bytes_sent)

\* What a connected socket holds for one com.recv call: the bytes up to the
\* payload (a header, whatever its length), a payload that is the pickled
\* data of `size` bytes, and `follows` bytes of the frame after it; io and dio
\* are "data", "timeout" or "oserror" as in Input.
Stream(io, header, dio, data, size, follows) ==
    [io |-> io, header |-> header, dio |-> dio, data |-> data, size |-> size,
     follows |-> follows]

\* com.recv on such a socket: what it returns or raises, and how many bytes
\* of the following frame its payload read took.
\*   sock.recv(n) gives at most n of the bytes at hand; pickle.loads raises
\*   EOFError on no bytes and on bytes cut right after the protocol opcode,
\*   UnpicklingError on bytes cut elsewhere or not starting with a pickle,
\*   and ignores what follows a whole pickle.
recv_bytes(s) ==
    LET Early(cls) == [got |-> RecvRaise(cls), beyond |-> 0]
        have == IF Len(s.header) < HEADER_SIZE THEN Len(s.header) ELSE HEADER_SIZE
        header == SubSeq(s.header, 1, have)
        rest == Len(s.header) - have
        magic == SubSeq(header, 1, HEADER_MAGIC_SIZE)
        data_size == int16(SubSeq(header, HEADER_MAGIC_SIZE + 1, HEADER_SIZE))
        athand == rest + s.size + s.follows
        read == IF data_size < athand THEN data_size ELSE athand
        beyond == IF read > rest + s.size THEN read - (rest + s.size) ELSE 0
    IN  IF s.io = "timeout" THEN Early("FandTimeoutError")
        ELSE IF s.io = "oserror" THEN Early("SendReceiveError")
        ELSE IF have = 0 THEN Early("FandConnectionResetError")
        ELSE IF have # HEADER_SIZE THEN Early("CorruptedDataError")
        ELSE IF data_size = -1 THEN Early("ValueError")
        ELSE IF magic # HEADER_MAGIC THEN Early("CorruptedDataError")
        ELSE IF s.dio = "timeout" THEN Early("FandTimeoutError")
        ELSE IF s.dio = "oserror" THEN Early("SendReceiveError")
        ELSE IF read = 0 \/ (rest = 0 /\ read = 2 /\ read < s.size)
        THEN [got |-> RecvRaise("EOFError"), beyond |-> beyond]
        ELSE IF rest > 0 \/ read < s.size
        THEN [got |-> RecvRaise("CorruptedDataError"), beyond |-> beyond]
        ELSE IF s.data.request = "disconnect"
        THEN [got |-> RecvRaise("FandConnectionResetError"), beyond |-> beyond]
        ELSE [got |-> Received(NoExc, s.data.request, s.data.args), beyond |-> beyond]

\* ----------------------------------------------------------------- server

\* What a handler does up to its com.send: the exception raised, the shelves
\* after it, and the (request, arguments) it passes to com.send (<<>>: none).
Handled(exc, shelves, reply) == [exc |-> exc, shelves |-> shelves, reply |-> reply]
Reply(request, items) == <<[request |-> request, items |-> items]>>

\* __SHELVES__[shelf_id] finds a shelf.
Found(shelves, shelf_id) == shelf_id.t = "str" /\ shelf_id.s \in DOMAIN shelves

ShelfNotFound(shelves, shelf_id) ==
    Handled(Exc("ShelfNotFoundError",
                Text(<<Str("Shelf "), shelf_id, Str(" not found")>>)),
            shelves, <<>>)

\* A handler after its Shelf setter: the shelf is as the setter left it, and
\* ACK is sent unless the setter raised.
Stored(shelves, shelf_id, set) ==
    Handled(set.exc, [shelves EXCEPT ![shelf_id.s] = set.shelf],
            IF set.exc = NoExc THEN Reply("ack", <<>>) ELSE <<>>)

handle_ping(shelves) == Handled(NoExc, shelves, Reply("ack", <<>>))

\* Mutant of handle_get_pwm: the read clears an override whose expiry has
\* elapsed.
handle_get_pwm_clearing(shelves, shelf_id, t) ==
    IF ~Found(shelves, shelf_id) THEN ShelfNotFound(shelves, shelf_id)
    ELSE LET shelf == shelves[shelf_id.s]
             expired == /\ shelf.pwm_override # None
                        /\ shelf.pwm_expire # None
                        /\ Instant(shelf.pwm_expire) <= t
         IN  Handled(NoExc,
                     IF expired
                     THEN [shelves EXCEPT ![shelf_id.s].pwm_override = None,
                                          ![shelf_id.s].pwm_expire = None]
                     ELSE shelves,
                     Reply("set_pwm", <<shelf_id, Num(pwm_get(shelf, t))>>))

handle_get_pwm(shelves, shelf_id, t) ==
    IF ~Found(shelves, shelf_id) THEN ShelfNotFound(shelves, shelf_id)
    ELSE Handled(NoExc, shelves,
                 Reply("set_pwm", <<shelf_id, Num(pwm_get(shelves[shelf_id.s], t))>>))

\* Mutant of handle_get_rpm: the reply carries the PWM base value.
handle_get_rpm_pwm(shelves, shelf_id) ==
    IF ~Found(shelves, shelf_id) THEN ShelfNotFound(shelves, shelf_id)
    ELSE Handled(NoExc, shelves,
                 Reply("set_rpm", <<shelf_id, Num(shelves[shelf_id.s].pwm)>>))

handle_get_rpm(shelves, shelf_id) ==
    IF ~Found(shelves, shelf_id) THEN ShelfNotFound(shelves, shelf_id)
    ELSE Handled(NoExc, shelves,
                 Reply("set_rpm", <<shelf_id, Num(shelves[shelf_id.s].rpm)>>))

\* Mutant of handle_set_rpm: an unknown shelf is created.
handle_set_rpm_create(shelves, shelf_id, speed) ==
    IF ~Found(shelves, shelf_id)
    THEN Handled(NoExc, (shelf_id.s :> ShelfInit) @@ shelves, Reply("ack", <<>>))
    ELSE Stored(shelves, shelf_id, rpm_set(shelves[shelf_id.s], speed))

handle_set_rpm(shelves, shelf_id, speed) ==
    IF ~Found(shelves, shelf_id) THEN ShelfNotFound(shelves, shelf_id)
    ELSE Stored(shelves, shelf_id, rpm_set(shelves[shelf_id.s], speed))

handle_set_pwm_override(shelves, shelf_id, speed) ==
    IF ~Found(shelves, shelf_id) THEN ShelfNotFound(shelves, shelf_id)
    ELSE Stored(shelves, shelf_id, pwm_set(shelves[shelf_id.s], speed))

handle_set_pwm_expire(shelves, shelf_id, date, t) ==
    IF ~Found(shelves, shelf_id) THEN ShelfNotFound(shelves, shelf_id)
    ELSE Stored(shelves, shelf_id, pwm_expire_set(shelves[shelf_id.s], date, t))

\* REQUEST_HANDLERS: its keys, and the number of arguments each handler takes
\* after the socket.
REQUEST_HANDLERS == {"ping", "get_pwm", "get_rpm", "set_rpm",
                     "set_pwm_override", "set_pwm_expire"}

Arity(request) ==
    CASE request = "ping" -> 0
      [] request \in {"get_pwm", "get_rpm"} -> 1
      [] OTHER -> 2

\* Mutant of Invoke: arguments beyond the handler's parameters are dropped.
Invoke_truncating(request, args, shelves, t) ==
    IF args.t # "tuple" THEN Handled(Exc("TypeError", None), shelves, <<>>)
    ELSE LET a == args.items IN
         IF Len(a) < Arity(request)
         THEN Handled(Exc("TypeError", None), shelves, <<>>)
         ELSE CASE request = "ping" -> handle_ping(shelves)
                [] request = "get_pwm" -> handle_get_pwm(shelves, a[1], t)
                [] request = "get_rpm" -> handle_get_rpm(shelves, a[1])
                [] request = "set_rpm" -> handle_set_rpm(shelves, a[1], a[2])
                [] request = "set_pwm_override" ->
                       handle_set_pwm_override(shelves, a[1], a[2])
                [] request = "set_pwm_expire" ->
                       handle_set_pwm_expire(shelves, a[1], a[2], t)

\* handler(client_socket, *args), up to the handler's com.send.
Invoke(request, args, shelves, t) ==
    IF args.t # "tuple" THEN Handled(Exc("TypeError", None), shelves, <<>>)
    ELSE LET a == args.items IN
         IF Len(a) # Arity(request)
         THEN Handled(Exc("TypeError", None), shelves, <<>>)
         ELSE CASE request = "ping" -> handle_ping(shelves)
                [] request = "get_pwm" -> handle_get_pwm(shelves, a[1], t)
                [] request = "get_rpm" -> handle_get_rpm(shelves, a[1])
                [] request = "set_rpm" -> handle_set_rpm(shelves, a[1], a[2])
                [] request = "set_pwm_override" ->
                       handle_set_pwm_override(shelves, a[1], a[2])
                [] request = "set_pwm_expire" ->
                       handle_set_pwm_expire(shelves, a[1], a[2], t)

\* The whole handler call: Invoke, then the handler's com.send.
Call(request, args, shelves, t, open, how) ==
    LET h == Invoke(request, args, shelves, t) IN
    IF h.reply = <<>> THEN [exc |-> h.exc, shelves |-> h.shelves, wrote |-> <<>>]
    ELSE LET w == send(open, h.reply[1].request, h.reply[1].items, how)
         IN  [exc |-> w.exc, shelves |-> h.shelves, wrote |-> w.wrote]

\* What listen_client does with an exception: the arguments of its
\* reset_connection call, "continue" without one, or "raise" (not caught).
Reset(msg, notice) == [do |-> "reset", msg |-> msg, notice |-> notice]
Continue == [do |-> "continue", msg |-> None, notice |-> FALSE]
Uncaught == [do |-> "raise", msg |-> None, notice |-> FALSE]

\* Mutant of OnRecvError: a connection reset is closed like any other error,
\* with a notice.
OnRecvError_notify(exc) ==
    IF IsA(exc, "TimeoutError") THEN Continue
    ELSE IF IsA(exc, "CommunicationError") THEN Reset(None, TRUE)
    ELSE Uncaught

\* listen_client: the except clauses around com.recv.
OnRecvError(exc) ==
    IF IsA(exc, "TimeoutError") THEN Continue
    ELSE IF IsA(exc, "ConnectionResetError") THEN Reset(None, FALSE)
    ELSE IF IsA(exc, "CommunicationError") THEN Reset(None, TRUE)
    ELSE Uncaught

\* listen_client: the except clauses around the handler call.
OnHandlerError(exc) ==
    IF IsA(exc, "TypeError") THEN Reset(Text(<<Str("Invalid call")>>), TRUE)
    ELSE IF IsA(exc, "ConnectionResetError") THEN Reset(None, FALSE)
    ELSE IF IsA(exc, "TimeoutError") THEN Reset(None, TRUE)
    ELSE IF IsA(exc, "CommunicationError") THEN Reset(None, TRUE)
    ELSE IF IsA(exc, "ShelfNotFoundError") THEN Reset(exc.text, TRUE)
    ELSE IF IsA(exc, "ValueError") THEN Reset(exc.text, TRUE)
    ELSE Uncaught

\* ------------------------------------------------------------------ state

\* Connections the server can accept; each socket is named as its connection.
Conns == {"c1", "c2"}
LISTEN == "listen"
Sockets == Conns \cup {LISTEN}
\* The thread running the termination hook (communication._terminate).
HOOK == "hook"
Threads == Conns \cup {HOOK}

VARIABLES
    now,            \* datetime.now(): the current instant
    temperatures,   \* Shelf.__temperatures of each shelf: class -> curve
    SHELVES,        \* __SHELVES__: shelf id -> the shelf's fields
    SOCKETS,        \* communication.__SOCKETS__
    TERMINATE,      \* util.__TERMINATE__
    osopen,         \* sockets whose OS handle is open
    acceptor,       \* the accept loop of daemon(): "run", "done", "raised"
    pc,             \* where each thread is
    req,            \* listen_client: what com.recv gave in the current iteration
    rc,             \* reset_connection: the arguments of a thread's running call
    died,           \* the class of the exception that ended a thread ("": none)
    sent,           \* frames written to each socket in its loop's current iteration
    todo,           \* _terminate: sockets of __SOCKETS__.copy() still to visit
    caught,         \* listen_client: the class of the exception an except clause
                    \* caught in the current iteration ("": none)
    updated,        \* some device.update() or temperature read was performed
    local,          \* a thread's locals inside Shelf.pwm (getter) / Shelf.update,
                    \* where those are followed statement by statement
    stored,         \* history: the values Shelf.update computed and assigned to
                    \* __pwm, and the initial one, where the stores are followed
    acked,          \* history: for each shelf, the value of the last SET_RPM
                    \* handled if it was answered ACK (None otherwise), where
                    \* the requests are logged
    TERMINATE_ERROR, \* util.__TERMINATE_ERROR__ ("": None)
    term,           \* terminate(): each caller's call, where it is and its error
                    \* argument, where terminate is followed statement by statement
    invoked,        \* history: how many times the hook _terminate was invoked
    status,         \* sys.exit's argument ("": the process has not exited)
    monitor,        \* shelf_thread: where each is, util.sleep's secs, and
                    \* history: the secs asked for, the time slept, the updates
                    \* begun and the chunks ended after the flag was set
    fatal,          \* history: the errors of the fatal conditions met
    wire,           \* one com.send and one com.recv on a byte stream, where the
                    \* bytes are followed: the call's inputs and its results
    pool            \* daemon's ThreadPoolExecutor, where its workers are
                    \* followed: the work items queued and those running

vars == <<now, temperatures, SHELVES, SOCKETS, TERMINATE, osopen, acceptor, pc,
          req, rc, died, sent, todo, caught, updated, local, stored, acked,
          TERMINATE_ERROR, term, invoked, status, monitor, fatal, wire, pool>>

\* The variables only the statement-by-statement and the logging actions
\* write.
stepVars == <<local, stored, acked, TERMINATE_ERROR, term, invoked, status, monitor,
              fatal, wire, pool>>

shelfVars == <<temperatures, SHELVES>>

NoCall == [sock |-> "", msg |-> None, notice |-> FALSE]

\* No com.send / com.recv call is followed byte by byte.
NoWire == [pc |-> "off"]
\* The executor as created: no work item queued or running, no connection
\* served or ended.
NoPool == [queue |-> <<>>, running |-> {}, served |-> {}, closed |-> {}]

\* The callers of util.terminate: the main thread (daemon, sys_exit), the
\* signal handler, and the done-callback of a shelf thread.
Callers == {"main", "signal", "callback"}

\* ----------------------------------------------------------- configuration

\* The curves of the test fixture (test_server.py, TestShelf.setup_method).
HddTemps == (0 :> 25) @@ (30 :> 30) @@ (35 :> 50) @@ (40 :> 75) @@ (41 :> 100)
SsdTemps == (0 :> 25) @@ (50 :> 40) @@ (55 :> 50) @@ (60 :> 70) @@ (65 :> 85)
            @@ (70 :> 100)
CpuTemps == (0 :> 25) @@ (75 :> 40) @@ (80 :> 60) @@ (85 :> 80) @@ (90 :> 100)

\* Shelf.__init__: the curves of a shelf.
Temperatures(hdd_temps, ssd_temps, cpu_temps) ==
    [ty \in DeviceType |->
        CASE ty = "NONE" -> (0 :> 0)
          [] ty = "HDD" -> hdd_temps
          [] ty = "SSD" -> ssd_temps
          [] ty = "CPU" -> cpu_temps]

\* The configured shelves and the devices of each.
ShelfIds == {"A"}
Serials == {"SERIAL1", "cpu"}

\* Device.find: the kinds a serial can resolve to.
FindTypes(serial) == IF serial = "cpu" THEN {"CPU", "NONE"} ELSE {"HDD", "SSD", "NONE"}

\* Temperatures the hardware reports.
Temps == {-5, 34}

\* The readings one update can meet: each device's kind and temperature
\* (a device that was not found reads 0).
Readings ==
    {r \in [Serials -> [type : DeviceType, temperature : Temps \cup {0}]] :
        \A d \in Serials :
            /\ r[d].type \in FindTypes(d)
            /\ (r[d].type = "NONE") = (r[d].temperature = 0)}

\* ----------------------------------------------------------------- inputs

KnownId == Str("A")
UnknownId == Str("X")
Ids == {KnownId, UnknownId}
RpmValues == {Num(-1), Num(2200), Str("junk")}
PwmValues == {Num(-1), Num(0), Num(40), Num(101), None, Str("junk")}
Dates == {Date(w, a, 0) : w \in 0..MaxTime, a \in BOOLEAN}
ExpireValues == Dates \cup {None, Str("junk")}

\* Well-formed and ill-formed messages a peer can send.
Messages ==
    {Message("ping", <<>>), Message("ping", <<KnownId>>), Message("get_pwm", <<>>),
     Message("set_rpm", <<KnownId>>),
     Message("set_pwm_override", <<KnownId, Num(40), Num(40)>>),
     Message("ack", <<>>), Message("set_pwm", <<KnownId, Num(40)>>),
     Message(WrongRequest, <<>>), Message(ListRequest, <<>>),
     Message("disconnect", <<>>), Message("disconnect", <<None>>),
     Message("disconnect", <<Text(<<Str("bye")>>)>>),
     Input("data", HEADER_SIZE, TRUE, TRUE, "data", "pair", "disconnect", Num(5)),
     Input("data", HEADER_SIZE, TRUE, TRUE, "data", "pair", "ping", Num(5))}
    \cup {Message(r, <<id>>) : r \in {"get_pwm", "get_rpm"}, id \in Ids}
    \cup {Message("set_rpm", <<KnownId, v>>) : v \in RpmValues}
    \cup {Message("set_pwm_override", <<KnownId, v>>) : v \in PwmValues}
    \cup {Message("set_pwm_expire", <<KnownId, v>>) : v \in ExpireValues}
    \cup {Message("set_rpm", <<UnknownId, v>>) : v \in {Num(-1), Num(2200)}}
    \cup {Message("set_pwm_override", <<UnknownId, v>>) : v \in {Num(40), Num(101)}}
    \cup {Message("set_pwm_expire", <<UnknownId, v>>) :
             v \in {None, Date(0, TRUE, 0), Date(MaxTime, TRUE, 0)}}

\* What else a read can meet: timeouts, errors, end of stream, bad frames.
BadInputs ==
    {Input("timeout", 0, FALSE, FALSE, "data", "", "", None),
     Input("oserror", 0, FALSE, FALSE, "data", "", "", None),
     Input("data", 0, FALSE, FALSE, "data", "", "", None),
     Input("data", 3, FALSE, FALSE, "data", "", "", None),
     Input("data", HEADER_SIZE, FALSE, TRUE, "data", "", "", None),
     Input("data", HEADER_SIZE, FALSE, FALSE, "data", "", "", None),
     Input("data", HEADER_SIZE, TRUE, FALSE, "data", "", "", None),
     Input("data", HEADER_SIZE, TRUE, TRUE, "timeout", "", "", None),
     Input("data", HEADER_SIZE, TRUE, TRUE, "oserror", "", "", None),
     Input("data", HEADER_SIZE, TRUE, TRUE, "data", "unpickling", "", None),
     Input("data", HEADER_SIZE, TRUE, TRUE, "data", "eof", "", None),
     Input("data", HEADER_SIZE, TRUE, TRUE, "data", "notpair", "", None)}

Inputs == Messages \cup BadInputs

\* ------------------------------------------------------------------- Init

Init ==
    /\ now = 0
    /\ temperatures = [s \in ShelfIds |-> Temperatures(HddTemps, SsdTemps, CpuTemps)]
    /\ SHELVES = [s \in ShelfIds |-> ShelfInit]
    /\ SOCKETS = {LISTEN}
    /\ TERMINATE = FALSE
    /\ osopen = {LISTEN}
    /\ acceptor = "run"
    /\ pc = [p \in Threads |-> "idle"]
    /\ req = [c \in Conns |-> NoReq]
    /\ rc = [p \in Threads |-> NoCall]
    /\ died = [p \in Threads |-> ""]
    /\ sent = [s \in Sockets |-> <<>>]
    /\ todo = {}
    /\ caught = [c \in Conns |-> ""]
    /\ updated = FALSE
    /\ local = [p \in Conns \cup ShelfIds |-> <<>>]
    /\ stored = {ShelfInit.pwm}
    /\ acked = [s \in ShelfIds |-> None]
    /\ TERMINATE_ERROR = ""
    /\ term = [k \in Callers |-> [pc |-> "idle", error |-> ""]]
    /\ invoked = 0
    /\ status = ""
    /\ monitor = [s \in ShelfIds |->
                    [pc |-> "test", secs |-> 0, asked |-> 0, slept |-> 0, chunk |-> 0,
                     begun |-> 0, ended |-> 0]]
    /\ fatal = {}
    /\ wire = NoWire
    /\ pool = NoPool

\* ---------------------------------------------------------------- actions

\* A socket a frame can be written to: its handle is open and it is connected.
Writable(sock) == sock \in osopen /\ sock # LISTEN

\* Where reset_connection returns to in thread p.
Return(p) == IF p = HOOK THEN "next" ELSE "loop"

\* Mutant of Enter: the registry is not consulted.
Enter_untested(p, sock, msg, notice) ==
    /\ pc' = [pc EXCEPT ![p] = "reset_notify"]
    /\ rc' = [rc EXCEPT ![p] = [sock |-> sock, msg |-> msg, notice |-> notice]]

\* reset_connection entered by thread p: its is_socket_open test; the call
\* returns at once for a socket that is not registered.
Enter(p, sock, msg, notice) ==
    IF sock \in SOCKETS
    THEN /\ pc' = [pc EXCEPT ![p] = "reset_notify"]
         /\ rc' = [rc EXCEPT ![p] = [sock |-> sock, msg |-> msg, notice |-> notice]]
    ELSE /\ pc' = [pc EXCEPT ![p] = Return(p)]
         /\ rc' = rc

\* An exception leaves thread p uncaught.
Raise(p, cls) ==
    /\ pc' = [pc EXCEPT ![p] = "raised"]
    /\ died' = [died EXCEPT ![p] = cls]

\* listen_client after an exception, as its except clauses decide.
React(c, exc, d) ==
    /\ caught' = [caught EXCEPT ![c] = IF d.do = "raise" THEN @ ELSE exc.cls]
    /\ CASE d.do = "continue" ->
               pc' = [pc EXCEPT ![c] = "loop"] /\ UNCHANGED <<rc, died>>
         [] d.do = "reset" -> Enter(c, c, d.msg, d.notice) /\ UNCHANGED died
         [] d.do = "raise" -> Raise(c, exc.cls) /\ UNCHANGED rc

\* Time passes.
Tick ==
    /\ now < MaxTime
    /\ now' = now + 1
    /\ UNCHANGED <<shelfVars, SOCKETS, TERMINATE, osopen, acceptor, pc, req, rc,
                   died, sent, todo, caught, updated, stepVars>>

\* shelf_thread: one round of its loop, shelf.update() on what the devices
\* read, among readings.
UpdateOf(s, readings) ==
    /\ ~TERMINATE
    /\ \E reading \in readings :
          SHELVES' = [SHELVES EXCEPT ![s] = update(@, temperatures[s], reading)]
    /\ updated' = TRUE
    /\ UNCHANGED <<now, temperatures, SOCKETS, TERMINATE, osopen, acceptor, pc, req,
                   rc, died, sent, todo, caught, stepVars>>

Update(s) == UpdateOf(s, Readings)

\* Mutant of Accept: add_socket registers the socket whatever the flag.
Accept_unguarded(c) ==
    /\ acceptor = "run"
    /\ LISTEN \in SOCKETS /\ LISTEN \in osopen
    /\ pc[c] = "idle" /\ c \notin osopen
    /\ osopen' = osopen \cup {c}
    /\ SOCKETS' = SOCKETS \cup {c}
    /\ pc' = [pc EXCEPT ![c] = "loop"]
    /\ acceptor' = acceptor
    /\ UNCHANGED <<now, shelfVars, TERMINATE, req, rc, died, sent, todo, caught,
                   updated, stepVars>>

\* daemon: the accept loop takes a connection, registers it (add_socket) and
\* submits listen_client; add_socket raises TerminatingError while terminating.
Accept(c) ==
    /\ acceptor = "run"
    /\ LISTEN \in SOCKETS /\ LISTEN \in osopen
    /\ pc[c] = "idle" /\ c \notin osopen
    /\ osopen' = osopen \cup {c}
    /\ IF TERMINATE
       THEN acceptor' = "raised" /\ UNCHANGED <<SOCKETS, pc>>
       ELSE /\ SOCKETS' = SOCKETS \cup {c}
            /\ pc' = [pc EXCEPT ![c] = "loop"]
            /\ acceptor' = acceptor
    /\ UNCHANGED <<now, shelfVars, TERMINATE, req, rc, died, sent, todo, caught,
                   updated, stepVars>>

\* daemon: the accept loop ends once the listening socket is not registered.
AcceptStop ==
    /\ acceptor = "run"
    /\ LISTEN \notin SOCKETS
    /\ acceptor' = "done"
    /\ UNCHANGED <<now, shelfVars, SOCKETS, TERMINATE, osopen, pc, req, rc, died,
                   sent, todo, caught, updated, stepVars>>

\* listen_client: the test of its while loop.
LoopTest(c) ==
    /\ pc[c] = "loop"
    /\ IF c \in SOCKETS
       THEN /\ pc' = [pc EXCEPT ![c] = "recv"]
            /\ req' = [req EXCEPT ![c] = NoReq]
            /\ sent' = [sent EXCEPT ![c] = <<>>]
            /\ caught' = [caught EXCEPT ![c] = ""]
       ELSE /\ pc' = [pc EXCEPT ![c] = "done"]
            /\ UNCHANGED <<req, sent, caught>>
    /\ UNCHANGED <<now, shelfVars, SOCKETS, TERMINATE, osopen, acceptor, rc, died,
                   todo, updated, stepVars>>

\* listen_client: com.recv and the except clauses around it, for what the
\* peer sends among inputs.  A closed handle yields an error or the end of
\* the stream.
RecvOf(c, inputs) ==
    /\ pc[c] = "recv"
    /\ \E in \in inputs :
          /\ c \in osopen \/ in.io = "oserror" \/ (in.io = "data" /\ in.hlen = 0)
          /\ LET r == recv(in) IN
             /\ req' = [req EXCEPT ![c] = r]
             /\ IF r.exc = NoExc
                THEN pc' = [pc EXCEPT ![c] = "handle"] /\ UNCHANGED <<rc, died, caught>>
                ELSE React(c, r.exc, OnRecvError(r.exc))
    /\ UNCHANGED <<now, shelfVars, SOCKETS, TERMINATE, osopen, acceptor, sent, todo,
                   updated, stepVars>>

Recv(c) == RecvOf(c, Inputs)

\* listen_client: the handler lookup, the handler call and the except clauses
\* around it.
Handling(c) ==
    /\ pc[c] = "handle"
    /\ LET m == req[c] IN
       IF ~Hashable(m.request)
       THEN Raise(c, "TypeError") /\ UNCHANGED <<SHELVES, sent, rc, caught>>
       ELSE IF m.request \notin REQUEST_HANDLERS
       THEN /\ Enter(c, c, Text(<<Str("Invalid request")>>), TRUE)
            /\ UNCHANGED <<SHELVES, sent, died, caught>>
       ELSE \E how \in SendOutcomes :
               LET r == Call(m.request, m.args, SHELVES, now, Writable(c), how) IN
               /\ SHELVES' = r.shelves
               /\ sent' = [sent EXCEPT ![c] = @ \o r.wrote]
               /\ IF r.exc = NoExc
                  THEN pc' = [pc EXCEPT ![c] = "loop"] /\ UNCHANGED <<rc, died, caught>>
                  ELSE React(c, r.exc, OnHandlerError(r.exc))
    /\ UNCHANGED <<now, temperatures, SOCKETS, TERMINATE, osopen, acceptor, req, todo,
                   updated>>

Handle(c) == Handling(c) /\ UNCHANGED stepVars

\* Mutant of ResetNotify: an error of the send leaves reset_connection.
ResetNotify_raising(p) ==
    /\ pc[p] = "reset_notify"
    /\ IF rc[p].notice
       THEN \E how \in SendOutcomes :
               LET w == send(Writable(rc[p].sock), "disconnect", <<rc[p].msg>>, how) IN
               /\ sent' = [sent EXCEPT ![rc[p].sock] = @ \o w.wrote]
               /\ IF w.exc = NoExc
                  THEN pc' = [pc EXCEPT ![p] = "reset_close"] /\ died' = died
                  ELSE Raise(p, w.exc.cls)
       ELSE /\ pc' = [pc EXCEPT ![p] = "reset_close"]
            /\ UNCHANGED <<sent, died>>
    /\ UNCHANGED <<now, shelfVars, SOCKETS, TERMINATE, osopen, acceptor, req, rc, todo,
                   caught, updated, stepVars>>

\* reset_connection: the DISCONNECT notice; an OSError of the send is logged.
ResetNotify(p) ==
    /\ pc[p] = "reset_notify"
    /\ IF rc[p].notice
       THEN \E how \in SendOutcomes :
               LET w == send(Writable(rc[p].sock), "disconnect", <<rc[p].msg>>, how) IN
               /\ sent' = [sent EXCEPT ![rc[p].sock] = @ \o w.wrote]
               /\ IF w.exc = NoExc \/ IsA(w.exc, "OSError")
                  THEN pc' = [pc EXCEPT ![p] = "reset_close"] /\ died' = died
                  ELSE Raise(p, w.exc.cls)
       ELSE /\ pc' = [pc EXCEPT ![p] = "reset_close"]
            /\ UNCHANGED <<sent, died>>
    /\ UNCHANGED <<now, shelfVars, SOCKETS, TERMINATE, osopen, acceptor, req, rc, todo,
                   caught, updated, stepVars>>

\* reset_connection: shutdown and close; an OSError is logged (close is
\* skipped when shutdown raises).
ResetClose(p) ==
    /\ pc[p] = "reset_close"
    /\ \E ok \in BOOLEAN :
          osopen' = IF ok THEN osopen \ {rc[p].sock} ELSE osopen
    /\ pc' = [pc EXCEPT ![p] = "reset_remove"]
    /\ UNCHANGED <<now, shelfVars, SOCKETS, TERMINATE, acceptor, req, rc, died, sent,
                   todo, caught, updated, stepVars>>

\* Mutant of ResetRemove: the registry is emptied of every connection.
ResetRemove_all(p) ==
    /\ pc[p] = "reset_remove"
    /\ IF rc[p].sock \in SOCKETS
       THEN /\ SOCKETS' = SOCKETS \ Conns
            /\ pc' = [pc EXCEPT ![p] = Return(p)]
            /\ rc' = [rc EXCEPT ![p] = NoCall]
            /\ died' = died
       ELSE /\ Raise(p, "KeyError")
            /\ UNCHANGED <<SOCKETS, rc>>
    /\ UNCHANGED <<now, shelfVars, TERMINATE, osopen, acceptor, req, sent, todo,
                   caught, updated, stepVars>>

\* reset_connection: __SOCKETS__.remove, which raises KeyError for a socket
\* that is no longer in the set.
ResetRemove(p) ==
    /\ pc[p] = "reset_remove"
    /\ IF rc[p].sock \in SOCKETS
       THEN /\ SOCKETS' = SOCKETS \ {rc[p].sock}
            /\ pc' = [pc EXCEPT ![p] = Return(p)]
            /\ rc' = [rc EXCEPT ![p] = NoCall]
            /\ died' = died
       ELSE /\ Raise(p, "KeyError")
            /\ UNCHANGED <<SOCKETS, rc>>
    /\ UNCHANGED <<now, shelfVars, TERMINATE, osopen, acceptor, req, sent, todo,
                   caught, updated, stepVars>>

\* util.terminate: sets the flag and starts the hooks (_terminate copies the
\* registry).
Terminate ==
    /\ ~TERMINATE
    /\ pc[HOOK] = "idle"
    /\ TERMINATE' = TRUE
    /\ todo' = SOCKETS
    /\ pc' = [pc EXCEPT ![HOOK] = "next"]
    /\ UNCHANGED <<now, shelfVars, SOCKETS, osopen, acceptor, req, rc, died, sent,
                   caught, updated, stepVars>>

\* _terminate: the next socket of the copy, reset_connection(sock).
HookNext ==
    /\ pc[HOOK] = "next"
    /\ IF todo = {}
       THEN pc' = [pc EXCEPT ![HOOK] = "done"] /\ UNCHANGED <<rc, todo>>
       ELSE \E sock \in todo :
               /\ todo' = todo \ {sock}
               /\ Enter(HOOK, sock, None, TRUE)
    /\ UNCHANGED <<now, shelfVars, SOCKETS, TERMINATE, osopen, acceptor, req, died,
                   sent, caught, updated, stepVars>>

\* ----------------------------------------------------------- specification

\* Connections that connect.
Clients == {"c1"}

\* The server serving a client, with every input, until it is told to stop.
Next ==
    \/ Tick
    \/ \E s \in ShelfIds : Update(s)
    \/ \E c \in Clients : Accept(c)
    \/ \E c \in Clients : LoopTest(c)
    \/ \E c \in Clients : Recv(c)
    \/ \E c \in Clients : Handle(c)
    \/ \E c \in Clients : ResetNotify(c)
    \/ \E c \in Clients : ResetClose(c)
    \/ \E c \in Clients : ResetRemove(c)

Spec == Init /\ [][Next]_vars

\* Inputs of the run that is stopped: one of each way an iteration can end.
StopInputs ==
    {Message("ping", <<>>), Message("get_pwm", <<KnownId>>),
     Message("get_pwm", <<UnknownId>>), Message("set_rpm", <<KnownId, Num(-1)>>),
     Message("set_rpm", <<KnownId>>), Message(WrongRequest, <<>>),
     Message("disconnect", <<None>>),
     Input("timeout", 0, FALSE, FALSE, "data", "", "", None),
     Input("oserror", 0, FALSE, FALSE, "data", "", "", None),
     Input("data", 0, FALSE, FALSE, "data", "", "", None),
     Input("data", HEADER_SIZE, FALSE, TRUE, "data", "", "", None)}

StopRecv(c) == RecvOf(c, StopInputs)

\* The server serving a client while util.terminate() may be called.
NextStop ==
    \/ \E c \in Clients : Accept(c)
    \/ AcceptStop
    \/ \E c \in Clients : LoopTest(c)
    \/ \E c \in Clients : StopRecv(c)
    \/ \E c \in Clients : Handle(c)
    \/ \E p \in Threads : ResetNotify(p)
    \/ \E p \in Threads : ResetClose(p)
    \/ \E p \in Threads : ResetRemove(p)
    \/ Terminate
    \/ HookNext

SpecStop == Init /\ [][NextStop]_vars

\* Inputs of the run with two connections: a request that is answered, a
\* setter, and one of each kind of error.
TwoInputs ==
    {Message("ping", <<>>), Message("set_rpm", <<KnownId, Num(2200)>>),
     Message("get_pwm", <<UnknownId>>), Message("set_rpm", <<KnownId, Num(-1)>>),
     Message("set_rpm", <<KnownId>>), Message(WrongRequest, <<>>),
     Input("timeout", 0, FALSE, FALSE, "data", "", "", None),
     Input("oserror", 0, FALSE, FALSE, "data", "", "", None),
     Input("data", 0, FALSE, FALSE, "data", "", "", None),
     Input("data", HEADER_SIZE, FALSE, TRUE, "data", "", "", None),
     Input("data", HEADER_SIZE, TRUE, FALSE, "data", "", "", None)}

TwoRecv(c) == RecvOf(c, TwoInputs)

\* The server serving two connections at once.
NextTwo ==
    \/ \E c \in Conns : Accept(c)
    \/ \E c \in Conns : LoopTest(c)
    \/ \E c \in Conns : TwoRecv(c)
    \/ \E c \in Conns : Handle(c)
    \/ \E c \in Conns : ResetNotify(c)
    \/ \E c \in Conns : ResetClose(c)
    \/ \E c \in Conns : ResetRemove(c)

SpecTwo == Init /\ [][NextTwo]_vars

\* Curves a configuration file can give (_read_config_temps takes any
\* numbers): the fixture's, one with a speed above 100, one with a threshold
\* below 0, one whose speeds do not grow with the thresholds, and curves
\* without a 0 key.
HddCurves ==
    {HddTemps,
     (0 :> 25) @@ (30 :> 120),
     (-10 :> 80) @@ (0 :> 25),
     (0 :> 50) @@ (30 :> 20),
     (30 :> 30) @@ (35 :> 50)}
SsdCurves == {SsdTemps, (-10 :> 10) @@ (0 :> 25), (50 :> 40)}
CpuCurves == {CpuTemps, (75 :> 40)}

\* Temperatures the hardware reports in the runs over these curves.
CurveTemps == {-5, 34, 41}

\* The readings one update can meet, over the temperatures temps.
ReadingsOver(temps) ==
    {r \in [Serials -> [type : DeviceType, temperature : temps \cup {0}]] :
        \A d \in Serials :
            /\ r[d].type \in FindTypes(d)
            /\ (r[d].type = "NONE") = (r[d].temperature = 0)}

CurveReadings == ReadingsOver(CurveTemps)

\* daemon() is called: nothing is configured, registered or listening yet.
InitCurves ==
    /\ now = 0
    /\ temperatures \in [ShelfIds -> {Temperatures(h, d, c) :
                              h \in HddCurves, d \in SsdCurves, c \in CpuCurves}]
    /\ SHELVES = [s \in {} |-> ShelfInit]
    /\ SOCKETS = {}
    /\ TERMINATE = FALSE
    /\ osopen = {}
    /\ acceptor = "config"
    /\ pc = [p \in Threads |-> "idle"]
    /\ req = [c \in Conns |-> NoReq]
    /\ rc = [p \in Threads |-> NoCall]
    /\ died = [p \in Threads |-> ""]
    /\ sent = [s \in Sockets |-> <<>>]
    /\ todo = {}
    /\ caught = [c \in Conns |-> ""]
    /\ updated = FALSE
    /\ local = [p \in Conns \cup ShelfIds |-> <<>>]
    /\ stored = {ShelfInit.pwm}
    /\ acked = [s \in ShelfIds |-> None]
    /\ TERMINATE_ERROR = ""
    /\ term = [k \in Callers |-> [pc |-> "idle", error |-> ""]]
    /\ invoked = 0
    /\ status = ""
    /\ monitor = [s \in ShelfIds |->
                    [pc |-> "test", secs |-> 0, asked |-> 0, slept |-> 0, chunk |-> 0,
                     begun |-> 0, ended |-> 0]]
    /\ fatal = {}
    /\ wire = NoWire
    /\ pool = NoPool

\* Mutant of Boot: a shelf's devices are updated before its curves are
\* checked.
Boot_updating ==
    /\ acceptor = "config"
    /\ updated' = TRUE
    /\ IF \A s \in ShelfIds : ShelfAccepts(temperatures[s])
       THEN /\ SHELVES' = [s \in ShelfIds |-> ShelfInit]
            /\ SOCKETS' = {LISTEN} /\ osopen' = {LISTEN}
            /\ acceptor' = "run"
       ELSE /\ acceptor' = "raised"
            /\ UNCHANGED <<SHELVES, SOCKETS, osopen>>
    /\ UNCHANGED <<now, temperatures, TERMINATE, pc, req, rc, died, sent, todo,
                   caught, stepVars>>

\* daemon up to its accept loop: read_config constructs every Shelf, each
\* is registered (add_shelf), the listening socket is bound and registered.
\* ShelfTemperatureBadValue raised by a constructor leaves daemon before any
\* shelf is registered.
Boot ==
    /\ acceptor = "config"
    /\ IF \A s \in ShelfIds : ShelfAccepts(temperatures[s])
       THEN /\ SHELVES' = [s \in ShelfIds |-> ShelfInit]
            /\ SOCKETS' = {LISTEN} /\ osopen' = {LISTEN}
            /\ acceptor' = "run"
       ELSE /\ acceptor' = "raised"
            /\ UNCHANGED <<SHELVES, SOCKETS, osopen>>
    /\ UNCHANGED <<now, temperatures, TERMINATE, pc, req, rc, died, sent, todo,
                   caught, updated, stepVars>>

\* shelf_thread of a registered shelf, over the curves' temperatures.
CurveUpdate(s) == UpdateOf(s, CurveReadings)

\* The client of these runs asks for the PWM value.
CurveInputs == {Message("get_pwm", <<KnownId>>)}
CurveRecv(c) == RecvOf(c, CurveInputs)

\* The server started on a configuration, its shelf threads and one client.
NextCurves ==
    \/ Boot
    \/ \E s \in DOMAIN SHELVES : CurveUpdate(s)
    \/ \E c \in Clients : Accept(c)
    \/ \E c \in Clients : LoopTest(c)
    \/ \E c \in Clients : CurveRecv(c)
    \/ \E c \in Clients : Handle(c)
    \/ \E c \in Clients : ResetNotify(c)
    \/ \E c \in Clients : ResetClose(c)
    \/ \E c \in Clients : ResetRemove(c)

SpecCurves == InitCurves /\ [][NextCurves]_vars

\* Overrides in place when the runs that follow reads statement by statement
\* start.
ReadOverrides == {None, Num(40)}

\* The server with its shelf registered, before any connection.
InitRead ==
    /\ now = 0
    /\ temperatures = [s \in ShelfIds |-> Temperatures(HddTemps, SsdTemps, CpuTemps)]
    /\ SHELVES \in [ShelfIds -> {[ShelfInit EXCEPT !.pwm_override = o] :
                                    o \in ReadOverrides}]
    /\ SOCKETS = {LISTEN}
    /\ TERMINATE = FALSE
    /\ osopen = {LISTEN}
    /\ acceptor = "run"
    /\ pc = [p \in Threads |-> "idle"]
    /\ req = [c \in Conns |-> NoReq]
    /\ rc = [p \in Threads |-> NoCall]
    /\ died = [p \in Threads |-> ""]
    /\ sent = [s \in Sockets |-> <<>>]
    /\ todo = {}
    /\ caught = [c \in Conns |-> ""]
    /\ updated = FALSE
    /\ local = [p \in Conns \cup ShelfIds |-> <<>>]
    /\ stored = {ShelfInit.pwm}
    /\ acked = [s \in ShelfIds |-> None]
    /\ TERMINATE_ERROR = ""
    /\ term = [k \in Callers |-> [pc |-> "idle", error |-> ""]]
    /\ invoked = 0
    /\ status = ""
    /\ monitor = [s \in ShelfIds |->
                    [pc |-> "test", secs |-> 0, asked |-> 0, slept |-> 0, chunk |-> 0,
                     begun |-> 0, ended |-> 0]]
    /\ fatal = {}
    /\ wire = NoWire
    /\ pool = NoPool

\* Mutant of Stores: the number is written in two parts, its tens and then
\* its units.
Stores_halves(old, new) == <<((new \div 10) * 10) + (old % 10), new>>

\* self.__pwm = max(pwm_list): the contents the field goes through when new
\* is assigned over old. The assignment rebinds a reference in one step.
Stores(old, new) == <<new>>

\* Shelf.update up to its assignment: the devices are read and the base
\* value is computed.
Compute(s) ==
    /\ ~TERMINATE
    /\ local[s] = <<>>
    /\ \E reading \in Readings :
          local' = [local EXCEPT ![s] =
                      Stores(SHELVES[s].pwm, update(SHELVES[s], temperatures[s], reading).pwm)]
    /\ updated' = TRUE
    /\ UNCHANGED <<now, shelfVars, SOCKETS, TERMINATE, osopen, acceptor, pc, req, rc,
                   died, sent, todo, caught, stored, acked,
                   TERMINATE_ERROR, term, invoked, status, monitor, fatal, wire, pool>>

\* Shelf.update: the assignment to __pwm; the history takes the value once
\* the assignment is complete.
Store(s) ==
    /\ local[s] # <<>>
    /\ SHELVES' = [SHELVES EXCEPT ![s].pwm = Head(local[s])]
    /\ local' = [local EXCEPT ![s] = Tail(@)]
    /\ stored' = IF Len(local[s]) = 1 THEN stored \cup {Head(local[s])} ELSE stored
    /\ UNCHANGED <<now, temperatures, SOCKETS, TERMINATE, osopen, acceptor, pc, req,
                   rc, died, sent, todo, caught, updated, acked,
                   TERMINATE_ERROR, term, invoked, status, monitor, fatal, wire, pool>>

ReadRecv(c) == RecvOf(c, CurveInputs)

\* _handle_get_pwm, Shelf.pwm: the test of the override and of its expiry
\* decides which field the getter returns.
GetTest(c) ==
    /\ pc[c] = "handle"
    /\ req[c].request = "get_pwm" /\ req[c].args = Tuple(<<KnownId>>)
    /\ LET shelf == SHELVES[KnownId.s] IN
       local' = [local EXCEPT ![c] =
                   IF shelf.pwm_override # None
                      /\ (shelf.pwm_expire = None \/ Instant(shelf.pwm_expire) > now)
                   THEN <<"pwm_override">> ELSE <<"pwm">>]
    /\ pc' = [pc EXCEPT ![c] = "get_load"]
    /\ UNCHANGED <<now, shelfVars, SOCKETS, TERMINATE, osopen, acceptor, req, rc,
                   died, sent, todo, caught, updated, stored, acked,
                   TERMINATE_ERROR, term, invoked, status, monitor, fatal, wire, pool>>

\* Shelf.pwm: the return statement loads the field.
GetLoad(c) ==
    /\ pc[c] = "get_load"
    /\ LET shelf == SHELVES[KnownId.s] IN
       local' = [local EXCEPT ![c] =
                   IF local[c][1] = "pwm_override"
                   THEN <<shelf.pwm_override>> ELSE <<Num(shelf.pwm)>>]
    /\ pc' = [pc EXCEPT ![c] = "get_send"]
    /\ UNCHANGED <<now, shelfVars, SOCKETS, TERMINATE, osopen, acceptor, req, rc,
                   died, sent, todo, caught, updated, stored, acked,
                   TERMINATE_ERROR, term, invoked, status, monitor, fatal, wire, pool>>

\* _handle_get_pwm: com.send of SET_PWM with the value read, and
\* listen_client's except clauses around the handler.
GetSend(c) ==
    /\ pc[c] = "get_send"
    /\ \E how \in SendOutcomes :
          LET w == send(Writable(c), "set_pwm", <<KnownId, local[c][1]>>, how) IN
          /\ sent' = [sent EXCEPT ![c] = @ \o w.wrote]
          /\ IF w.exc = NoExc
             THEN pc' = [pc EXCEPT ![c] = "loop"] /\ UNCHANGED <<rc, died, caught>>
             ELSE React(c, w.exc, OnHandlerError(w.exc))
    /\ local' = [local EXCEPT ![c] = <<>>]
    /\ UNCHANGED <<now, shelfVars, SOCKETS, TERMINATE, osopen, acceptor, req, todo,
                   updated, stored, acked,
                   TERMINATE_ERROR, term, invoked, status, monitor, fatal, wire, pool>>

\* The shelf thread storing base values while the connections serve GET_PWM.
NextRead ==
    \/ \E s \in ShelfIds : Compute(s)
    \/ \E s \in ShelfIds : Store(s)
    \/ \E c \in Conns : Accept(c)
    \/ \E c \in Conns : LoopTest(c)
    \/ \E c \in Conns : ReadRecv(c)
    \/ \E c \in Conns : GetTest(c)
    \/ \E c \in Conns : GetLoad(c)
    \/ \E c \in Conns : GetSend(c)
    \/ \E c \in Conns : ResetNotify(c)
    \/ \E c \in Conns : ResetClose(c)
    \/ \E c \in Conns : ResetRemove(c)

SpecRead == InitRead /\ [][NextRead]_vars

\* _handle_get_pwm, Shelf.pwm: the condition of the getter, one read of a
\* field at a time: __pwm_override is tested against None, __pwm_expire is
\* tested against None, and __pwm_expire is read again to be compared with
\* now. Comparing None with a datetime raises TypeError, which leaves the
\* handler and meets listen_client's except clauses.
GetCond(c) ==
    /\ req[c].request = "get_pwm" /\ req[c].args = Tuple(<<KnownId>>)
    /\ LET shelf == SHELVES[KnownId.s]
           Goes(to, field) ==
               /\ pc' = [pc EXCEPT ![c] = to]
               /\ local' = [local EXCEPT ![c] = field]
               /\ UNCHANGED <<rc, died, caught>>
       IN  CASE pc[c] = "handle" ->
                  IF shelf.pwm_override = None THEN Goes("get_load", <<"pwm">>)
                  ELSE Goes("get_expire", <<>>)
             [] pc[c] = "get_expire" ->
                  IF shelf.pwm_expire = None THEN Goes("get_load", <<"pwm_override">>)
                  ELSE Goes("get_compare", <<>>)
             [] pc[c] = "get_compare" ->
                  IF shelf.pwm_expire = None
                  THEN /\ React(c, Exc("TypeError", None),
                                OnHandlerError(Exc("TypeError", None)))
                       /\ UNCHANGED local
                  ELSE Goes("get_load", IF Instant(shelf.pwm_expire) > now
                                        THEN <<"pwm_override">> ELSE <<"pwm">>)
             [] OTHER -> FALSE
    /\ UNCHANGED <<now, shelfVars, SOCKETS, TERMINATE, osopen, acceptor, req, sent,
                   todo, updated, stored, acked,
                   TERMINATE_ERROR, term, invoked, status, monitor, fatal, wire, pool>>

\* Peers read the pwm, set and clear the override, set and clear its expiry.
ClearRecv(c) ==
    RecvOf(c, {Message("get_pwm", <<KnownId>>)}
              \cup {Message("set_pwm_override", <<KnownId, v>>) : v \in ReadOverrides}
              \cup {Message("set_pwm_expire", <<KnownId, v>>) :
                       v \in {None, Date(MaxTime, TRUE, 0)}})

\* The handlers of the setters, each in one step.
ClearHandle(c) == req[c].request # "get_pwm" /\ Handle(c)

\* Connections serving GET_PWM statement by statement while others set and
\* clear the override and its expiry.
SpecClear ==
    /\ InitRead
    /\ [][\/ \E c \in Conns : Accept(c)
          \/ \E c \in Conns : LoopTest(c)
          \/ \E c \in Conns : ClearRecv(c)
          \/ \E c \in Conns : GetCond(c)
          \/ \E c \in Conns : GetLoad(c)
          \/ \E c \in Conns : GetSend(c)
          \/ \E c \in Conns : ClearHandle(c)
          \/ \E c \in Conns : ResetNotify(c)
          \/ \E c \in Conns : ResetClose(c)
          \/ \E c \in Conns : ResetRemove(c)]_vars

\* Inputs of the run where SET_RPM is logged: two speeds, the getter, and a
\* PWM request.
RpmInputs ==
    {Message("set_rpm", <<KnownId, Num(2200)>>), Message("set_rpm", <<KnownId, Num(1500)>>),
     Message("get_rpm", <<KnownId>>), Message("set_pwm_override", <<KnownId, Num(40)>>)}

\* The readings of that run: every device kind, at one temperature.
RpmReadings == ReadingsOver({34})

RpmRecv(c) == RecvOf(c, RpmInputs)

\* _handle_set_rpm handled by thread c for a known shelf: the log takes the
\* value when ACK is written, and None when it is not.
HandleRpm(c) ==
    /\ Handling(c)
    /\ LET m == req[c] IN
       IF /\ m.request = "set_rpm" /\ m.args.t = "tuple" /\ Len(m.args.items) = 2
          /\ Found(SHELVES, m.args.items[1])
       THEN acked' = [acked EXCEPT ![m.args.items[1].s] =
                        IF sent'[c] = Append(sent[c], Frame("ack", <<>>))
                        THEN m.args.items[2] ELSE None]
       ELSE acked' = acked
    /\ UNCHANGED <<local, stored,
                   TERMINATE_ERROR, term, invoked, status, monitor, fatal, wire, pool>>

\* Two connections setting and reading the rpm while the shelf is updated.
NextRpm ==
    \/ \E s \in ShelfIds : UpdateOf(s, RpmReadings)
    \/ \E c \in Conns : Accept(c)
    \/ \E c \in Conns : LoopTest(c)
    \/ \E c \in Conns : RpmRecv(c)
    \/ \E c \in Conns : HandleRpm(c)
    \/ \E c \in Conns : ResetNotify(c)
    \/ \E c \in Conns : ResetClose(c)
    \/ \E c \in Conns : ResetRemove(c)

SpecRpm == Init /\ [][NextRpm]_vars

\* util.sleep's one second, in the unit of the runs that follow (half a
\* second).
Second == 2

\* Shelf.sleep_time: half a second, one second, two seconds and a half.
SleepTimes == {1, 2, 5}

\* daemon() is called on the fixture's curves or with an SSD curve that has
\* no 0 key.
InitExit ==
    /\ InitCurves
    /\ \A s \in ShelfIds :
          temperatures[s] \in {Temperatures(HddTemps, SsdTemps, CpuTemps),
                               Temperatures(HddTemps, (50 :> 40), CpuTemps)}

\* util.terminate(error) called by k: the error is logged and the flag is
\* tested; the call returns at once when it is set.
terminate(k, error) ==
    [term EXCEPT ![k] = [pc |-> IF TERMINATE THEN "returned" ELSE "set",
                         error |-> error]]

\* The main thread runs: no signal handler is running in it.
MainRuns == term["signal"].pc # "set"

\* util.terminate after its test: the flag and the error are assigned and
\* the hooks are called; _terminate closes and unregisters every socket of
\* the registry (no connection is open in these runs).
TermRun(k) ==
    /\ term[k].pc = "set"
    /\ k = "main" => MainRuns
    /\ TERMINATE' = TRUE
    /\ TERMINATE_ERROR' = term[k].error
    /\ invoked' = invoked + 1
    /\ SOCKETS' = {}
    /\ osopen' = osopen \ SOCKETS
    /\ term' = [term EXCEPT ![k].pc = "returned"]
    /\ UNCHANGED <<now, shelfVars, acceptor, pc, req, rc, died, sent, todo, caught,
                   updated, local, stored, acked, status, monitor, fatal, wire, pool>>

\* default_signal_handler: SIGINT or SIGTERM arrives and terminate() is called.
Signal ==
    /\ term["signal"].pc = "idle"
    /\ status = ""
    /\ term' = terminate("signal", "")
    /\ UNCHANGED <<now, shelfVars, SOCKETS, TERMINATE, osopen, acceptor, pc, req, rc,
                   died, sent, todo, caught, updated, local, stored, acked,
                   TERMINATE_ERROR, invoked, status, monitor, fatal, wire, pool>>

\* daemon: a fatal condition of the main thread. Before the accept loop, the
\* configuration is missing or the bind fails; in the accept loop, accept
\* raises OSError while the flag is clear. terminate(error) is called and the
\* exception leaves daemon.
MainFails ==
    /\ MainRuns
    /\ term["main"].pc = "idle"
    /\ \E e \in CASE acceptor = "config" ->
                      {"Cannot continue without configuration",
                       "Cannot bind to requested interface and port"}
                 [] acceptor = "run" /\ ~TERMINATE ->
                      {"Error while listening for clients"}
                 [] OTHER -> {} :
          /\ term' = terminate("main", e)
          /\ fatal' = fatal \cup {e}
    /\ acceptor' = "raised"
    /\ UNCHANGED <<now, shelfVars, SOCKETS, TERMINATE, osopen, pc, req, rc, died, sent,
                   todo, caught, updated, local, stored, acked, TERMINATE_ERROR,
                   invoked, status, monitor, wire, pool>>

\* shelf_thread: the test of its while loop.
ShelfTest(s) ==
    /\ monitor[s].pc = "test"
    /\ monitor' = [monitor EXCEPT ![s].pc = IF TERMINATE THEN "done" ELSE "update"]
    /\ UNCHANGED <<now, shelfVars, SOCKETS, TERMINATE, osopen, acceptor, pc, req, rc,
                   died, sent, todo, caught, updated, local, stored, acked,
                   TERMINATE_ERROR, term, invoked, status, fatal, wire, pool>>

\* shelf_thread: shelf.update() and the call of util.sleep(shelf.sleep_time);
\* or the update raises, the thread ends and shelf_thread_callback calls
\* terminate.
ShelfUpdate(s) ==
    /\ monitor[s].pc = "update"
    /\ LET begun == monitor[s].begun + (IF TERMINATE THEN 1 ELSE 0) IN
       \/ /\ \E reading \in RpmReadings :
                SHELVES' = [SHELVES EXCEPT ![s] = update(@, temperatures[s], reading)]
          /\ updated' = TRUE
          /\ \E secs \in SleepTimes :
                monitor' = [monitor EXCEPT ![s] =
                              [@ EXCEPT !.pc = "sleep", !.secs = secs, !.asked = secs,
                                        !.slept = 0, !.chunk = 0, !.begun = begun]]
          /\ UNCHANGED <<term, fatal>>
       \/ /\ term["callback"].pc = "idle"
          /\ monitor' = [monitor EXCEPT ![s].pc = "raised", ![s].begun = begun]
          /\ term' = terminate("callback", "Exception in shelf thread")
          /\ fatal' = fatal \cup {"Exception in shelf thread"}
          /\ UNCHANGED <<SHELVES, updated>>
    /\ UNCHANGED <<now, temperatures, SOCKETS, TERMINATE, osopen, acceptor, pc, req, rc,
                   died, sent, todo, caught, local, stored, acked, TERMINATE_ERROR,
                   invoked, status, wire, pool>>

\* Mutant of SleepTest: the flag is not looked at.
SleepTest_deaf(s) ==
    /\ monitor[s].pc = "sleep"
    /\ monitor' = [monitor EXCEPT ![s] =
                     IF @.secs > 0
                     THEN [@ EXCEPT !.pc = "chunk",
                                    !.chunk = IF monitor[s].secs > Second THEN Second
                                              ELSE monitor[s].secs]
                     ELSE [@ EXCEPT !.pc = "test"]]
    /\ UNCHANGED <<now, shelfVars, SOCKETS, TERMINATE, osopen, acceptor, pc, req, rc,
                   died, sent, todo, caught, updated, local, stored, acked,
                   TERMINATE_ERROR, term, invoked, status, fatal, wire, pool>>

\* util.sleep: the test of its while loop and, when it passes, the start of
\* time.sleep for one second or for what is left.
SleepTest(s) ==
    /\ monitor[s].pc = "sleep"
    /\ monitor' = [monitor EXCEPT ![s] =
                     IF @.secs > 0 /\ ~TERMINATE
                     THEN [@ EXCEPT !.pc = "chunk",
                                    !.chunk = IF monitor[s].secs > Second THEN Second
                                              ELSE monitor[s].secs]
                     ELSE [@ EXCEPT !.pc = "test"]]
    /\ UNCHANGED <<now, shelfVars, SOCKETS, TERMINATE, osopen, acceptor, pc, req, rc,
                   died, sent, todo, caught, updated, local, stored, acked,
                   TERMINATE_ERROR, term, invoked, status, fatal, wire, pool>>

\* util.sleep: time.sleep returns and secs -= 1.
SleepChunk(s) ==
    /\ monitor[s].pc = "chunk"
    /\ monitor' = [monitor EXCEPT ![s] =
                     [@ EXCEPT !.pc = "sleep", !.secs = @ - Second,
                               !.slept = @ + monitor[s].chunk,
                               !.ended = @ + (IF TERMINATE THEN 1 ELSE 0)]]
    /\ UNCHANGED <<now, shelfVars, SOCKETS, TERMINATE, osopen, acceptor, pc, req, rc,
                   died, sent, todo, caught, updated, local, stored, acked,
                   TERMINATE_ERROR, term, invoked, status, fatal, wire, pool>>

\* main: daemon has returned or raised (the executor has joined its
\* threads) and sys_exit runs: terminate() when the flag is clear, then
\* sys.exit with 0 or with the stored error.
SysExit ==
    /\ MainRuns
    /\ acceptor \in {"done", "raised"}
    /\ term["main"].pc \in {"idle", "returned"}
    /\ term["callback"].pc # "set"
    /\ \A s \in DOMAIN SHELVES : monitor[s].pc \in {"done", "raised"}
    /\ status = ""
    /\ IF ~TERMINATE
       THEN term' = terminate("main", "") /\ status' = status
       ELSE /\ status' = IF TERMINATE_ERROR = "" THEN "0" ELSE TERMINATE_ERROR
            /\ term' = term
    /\ UNCHANGED <<now, shelfVars, SOCKETS, TERMINATE, osopen, acceptor, pc, req, rc,
                   died, sent, todo, caught, updated, local, stored, acked,
                   TERMINATE_ERROR, invoked, monitor, fatal, wire, pool>>

\* The server from its start to its exit: the main thread, the signal
\* handler and the shelf threads.
NextExit ==
    \/ MainRuns /\ Boot
    \/ MainFails
    \/ MainRuns /\ AcceptStop
    \/ Signal
    \/ \E k \in Callers : TermRun(k)
    \/ \E s \in DOMAIN SHELVES : ShelfTest(s)
    \/ \E s \in DOMAIN SHELVES : ShelfUpdate(s)
    \/ \E s \in DOMAIN SHELVES : SleepTest(s)
    \/ \E s \in DOMAIN SHELVES : SleepChunk(s)
    \/ SysExit

SpecExit == InitExit /\ [][NextExit]_vars

\* shelf_thread: shelf.update() raises, the thread ends and
\* shelf_thread_callback calls util.terminate with the error; the flag is
\* set and the hook starts.
ShelfFails(s) ==
    /\ ~TERMINATE
    /\ pc[HOOK] = "idle"
    /\ monitor' = [monitor EXCEPT ![s].pc = "raised"]
    /\ TERMINATE' = TRUE
    /\ TERMINATE_ERROR' = "Exception in shelf thread"
    /\ fatal' = fatal \cup {"Exception in shelf thread"}
    /\ todo' = SOCKETS
    /\ pc' = [pc EXCEPT ![HOOK] = "next"]
    /\ UNCHANGED <<now, shelfVars, SOCKETS, osopen, acceptor, req, rc, died, sent,
                   caught, updated, local, stored, acked, term, invoked, status,
                   wire, pool>>

\* The server serving a client until a signal or a failing shelf update
\* stops it.
NextFair ==
    \/ NextStop
    \/ \E s \in ShelfIds : ShelfFails(s)

\* Every thread that can take a step eventually takes one: the accept loop
\* once its socket is unregistered, the thread running the hook, and each
\* connection thread (a read on a closed socket returns). Peers need not
\* connect, and nobody need ask the server to stop.
SpecFair ==
    /\ Init /\ [][NextFair]_vars
    /\ WF_vars(AcceptStop)
    /\ WF_vars(HookNext)
    /\ \A p \in Threads : WF_vars(ResetNotify(p) \/ ResetClose(p) \/ ResetRemove(p))
    /\ \A c \in Clients : WF_vars(LoopTest(c) \/ StopRecv(c) \/ Handle(c))

\* ------------------------------------------------------ the worker pool

\* Connections the peers open, one after the other.
PoolConns == {"c1", "c2", "c3"}

\* daemon: executor.submit(shelf_thread, shelf) for each shelf, before the
\* accept loop; the work item waits in the executor's queue.
PoolSubmit(s) ==
    /\ s \notin pool.running /\ \A i \in 1..Len(pool.queue) : pool.queue[i] # s
    /\ pool' = [pool EXCEPT !.queue = Append(@, s)]
    /\ UNCHANGED <<now, shelfVars, SOCKETS, TERMINATE, osopen, acceptor, pc, req, rc,
                   died, sent, todo, caught, updated, local, stored, acked,
                   TERMINATE_ERROR, term, invoked, status, monitor, fatal, wire>>

\* daemon's accept loop: a connection is accepted and registered, and
\* executor.submit(listen_client, client_socket) queues its request loop.
PoolAccept(c) ==
    /\ ShelfIds \subseteq
          pool.running \cup {pool.queue[i] : i \in 1..Len(pool.queue)}
    /\ c \notin pool.running \cup pool.closed
    /\ \A i \in 1..Len(pool.queue) : pool.queue[i] # c
    /\ pool' = [pool EXCEPT !.queue = Append(@, c)]
    /\ UNCHANGED <<now, shelfVars, SOCKETS, TERMINATE, osopen, acceptor, pc, req, rc,
                   died, sent, todo, caught, updated, local, stored, acked,
                   TERMINATE_ERROR, term, invoked, status, monitor, fatal, wire>>

\* A worker that runs no work item (one just created, while fewer than
\* max_workers exist, or one whose work item returned) takes the first of
\* the queue and runs it.
PoolStart ==
    /\ pool.queue # <<>>
    /\ Cardinality(pool.running) < MaxWorkers
    /\ pool' = [pool EXCEPT !.queue = Tail(@), !.running = @ \cup {Head(pool.queue)}]
    /\ UNCHANGED <<now, shelfVars, SOCKETS, TERMINATE, osopen, acceptor, pc, req, rc,
                   died, sent, todo, caught, updated, local, stored, acked,
                   TERMINATE_ERROR, term, invoked, status, monitor, fatal, wire>>

\* listen_client running for c receives the connection's first request and
\* answers it.
PoolServe(c) ==
    /\ c \in pool.running /\ c \notin pool.served
    /\ pool' = [pool EXCEPT !.served = @ \cup {c}]
    /\ UNCHANGED <<now, shelfVars, SOCKETS, TERMINATE, osopen, acceptor, pc, req, rc,
                   died, sent, todo, caught, updated, local, stored, acked,
                   TERMINATE_ERROR, term, invoked, status, monitor, fatal, wire>>

\* The peer of c closes the connection: listen_client returns and its
\* worker is free again. (shelf_thread returns only once the process is
\* terminating.)
PoolEnd(c) ==
    /\ c \in pool.running
    /\ pool' = [pool EXCEPT !.running = @ \ {c}, !.closed = @ \cup {c}]
    /\ UNCHANGED <<now, shelfVars, SOCKETS, TERMINATE, osopen, acceptor, pc, req, rc,
                   died, sent, todo, caught, updated, local, stored, acked,
                   TERMINATE_ERROR, term, invoked, status, monitor, fatal, wire>>

\* The executor of daemon while the process runs. A worker with a work item
\* to take takes it, and a connection whose loop runs has its first request
\* answered; peers need not connect and need not disconnect.
SpecPool ==
    /\ Init
    /\ [][\/ \E s \in ShelfIds : PoolSubmit(s)
          \/ \E c \in PoolConns : PoolAccept(c)
          \/ PoolStart
          \/ \E c \in PoolConns : PoolServe(c)
          \/ \E c \in PoolConns : PoolEnd(c)]_vars
    /\ WF_vars(PoolStart)
    /\ \A c \in PoolConns : WF_vars(PoolServe(c))

\* ------------------------------------------------- one frame on the wire

\* The lengths pickle.dumps gives for the (request, args) sent: short ones,
\* the longest a four-digit header can state, and longer ones.
DataSizes == {26, 65535, 65536, 70065}

\* The calls of com.send followed: m.count is what a short write returns,
\* m.follows the bytes of a following frame at hand when the payload is read.
WireCalls ==
    {m \in [request : Request, items : {<<>>, <<KnownId, Num(40)>>},
            pickling : {"ok", "PicklingError", "TypeError", "AttributeError"},
            size : DataSizes, how : SendOutcomes,
            count : {0, 3} \cup {HEADER_SIZE + n : n \in DataSizes},
            follows : {0, 12}] :
        /\ (m.how = "short") =
              (m.count > 0 /\ m.count < Len(header_bytes(m.size)) + m.size
               /\ m.count \in {3, HEADER_SIZE + m.size})
        /\ m.pickling # "ok" => m.how = "ok" /\ m.follows = 0}

\* The headers a peer can write before a payload of 26 bytes: none, a cut
\* one, one stating the payload's length or another, in small or capital
\* digits or in no digits, and the same after another magic.
\* Then a payload with or without bytes of a following frame at hand, or a
\* read that fails.
PeerStreams ==
    LET PeerHeaders ==
            {<<>>, <<"9", "9", "F">>, <<"9", "9", "F", "9", "0", "0", "1">>,
             HEADER_MAGIC \o <<"0", "0", "1", "A">>,
             HEADER_MAGIC \o <<"z", "z", "z", "z">>,
             <<"9", "9", "f", "9", "0", "0", "1", "a">>,
             <<"9", "9", "f", "9", "z", "z", "z", "z">>}
            \cup {header_bytes(n) : n \in {0, 2, 25, 26, 30, 40}}
    IN
    {Stream("data", h, "data", Frame(r, i), 26, f) :
        h \in PeerHeaders, r \in {"ping", "set_rpm", "disconnect"},
        i \in {<<>>, <<Text(<<Str("bye")>>)>>}, f \in {0, 12}}
    \cup {Stream(io, header_bytes(26), dio, Frame("ping", <<>>), 26, 0) :
             io \in {"data", "timeout", "oserror"},
             dio \in {"data", "timeout", "oserror"}}

\* A call of com.send is about to run, or a socket is about to be read.
InitWire ==
    /\ now = 0
    /\ temperatures = [s \in ShelfIds |-> Temperatures(HddTemps, SsdTemps, CpuTemps)]
    /\ SHELVES = [s \in ShelfIds |-> ShelfInit]
    /\ SOCKETS = {LISTEN}
    /\ TERMINATE = FALSE
    /\ osopen = {LISTEN}
    /\ acceptor = "run"
    /\ pc = [p \in Threads |-> "idle"]
    /\ req = [c \in Conns |-> NoReq]
    /\ rc = [p \in Threads |-> NoCall]
    /\ died = [p \in Threads |-> ""]
    /\ sent = [s \in Sockets |-> <<>>]
    /\ todo = {}
    /\ caught = [c \in Conns |-> ""]
    /\ updated = FALSE
    /\ local = [p \in Conns \cup ShelfIds |-> <<>>]
    /\ stored = {ShelfInit.pwm}
    /\ acked = [s \in ShelfIds |-> None]
    /\ TERMINATE_ERROR = ""
    /\ term = [k \in Callers |-> [pc |-> "idle", error |-> ""]]
    /\ invoked = 0
    /\ status = ""
    /\ monitor = [s \in ShelfIds |->
                    [pc |-> "test", secs |-> 0, asked |-> 0, slept |-> 0, chunk |-> 0,
                     begun |-> 0, ended |-> 0]]
    /\ fatal = {}
    /\ wire \in
          {[pc |-> "send", call |-> m, out |-> None, stream |-> None, res |-> None] :
              m \in WireCalls}
          \cup {[pc |-> "recv", call |-> None, out |-> None, stream |-> s,
                  res |-> None] : s \in PeerStreams}
    /\ pool = NoPool

\* com.send runs. When its whole frame reached the wire the peer's com.recv
\* reads it, with the bytes the sender wrote after it at hand.
WireSend ==
    /\ wire.pc = "send"
    /\ LET out == send_bytes(wire.call)
           whole == out.count > 0 /\ out.count = Len(out.header) + out.size
       IN  wire' = [wire EXCEPT
                      !.out = out,
                      !.pc = IF whole THEN "recv" ELSE "done",
                      !.stream = IF whole
                                 THEN Stream("data", out.header, "data", out.data,
                                             out.size, wire.call.follows)
                                 ELSE None]
    /\ UNCHANGED <<now, shelfVars, SOCKETS, TERMINATE, osopen, acceptor, pc, req, rc,
                   died, sent, todo, caught, updated, local, stored, acked,
                   TERMINATE_ERROR, term, invoked, status, monitor, fatal, pool>>

\* com.recv runs on the socket.
WireRecv ==
    /\ wire.pc = "recv"
    /\ wire' = [wire EXCEPT !.res = recv_bytes(wire.stream), !.pc = "done"]
    /\ UNCHANGED <<now, shelfVars, SOCKETS, TERMINATE, osopen, acceptor, pc, req, rc,
                   died, sent, todo, caught, updated, local, stored, acked,
                   TERMINATE_ERROR, term, invoked, status, monitor, fatal, pool>>

NextWire ==
    \/ WireSend
    \/ WireRecv

\* One com.send and the com.recv that reads what it wrote, or one com.recv
\* on what a peer wrote.
SpecWire == InitWire /\ [][NextWire]_vars

\* ----------------------------------------------------------------- claims

\* Thread c takes the step that looks up and calls the handler.
Handles(c) == pc[c] = "handle" /\ pc'[c] # "handle"

\* What thread c received is the request named, with n arguments.
IsCall(c, request, n) ==
    /\ req[c] # NoReq /\ req[c].exc = NoExc
    /\ req[c].request = request
    /\ req[c].args.t = "tuple" /\ Len(req[c].args.items) = n

Arg(c, i) == req[c].args.items[i]

\* What thread c received names shelf s as its first argument.
Names(c, s) == Len(req[c].args.items) >= 1 /\ Arg(c, 1) = Str(s)

\* The instant a datetime of a request denotes: a naive one is local time.
DateInstant(date) == date.wall - (IF date.aware THEN date.off ELSE LocalOffset)

\* The expiry of shelf s has elapsed.
Elapsed(s) ==
    SHELVES[s].pwm_expire # None /\ Instant(SHELVES[s].pwm_expire) <= now

\* Thread c wrote exactly this one frame in the step.
Wrote(c, frame) == sent'[c] = Append(sent[c], frame)

InvalidCall == Text(<<Str("Invalid call")>>)
InvalidRequest == Text(<<Str("Invalid request")>>)

\* A reason that is the text of a domain error.
DomainReason(msg) == msg.t = "text" /\ msg \notin {InvalidCall, InvalidRequest}

\* C1: a read of a shelf's pwm gives the override when one is set and the
\* expiry is unset or later than the instant of the read, and the base value
\* otherwise; an expiry equal to that instant has elapsed.  In every
\* reachable shelf state, for every instant.
C1_PwmRead ==
    \A s \in ShelfIds : \A t \in 0..MaxTime :
        LET shelf == SHELVES[s]
            read == pwm_get(shelf, t)
        IN  /\ shelf.pwm_override = None => read = shelf.pwm
            /\ (shelf.pwm_override # None /\ shelf.pwm_expire = None)
                  => read = shelf.pwm_override.n
            /\ (shelf.pwm_override # None /\ shelf.pwm_expire # None)
                  => /\ Instant(shelf.pwm_expire) > t => read = shelf.pwm_override.n
                     /\ Instant(shelf.pwm_expire) = t => read = shelf.pwm
                     /\ Instant(shelf.pwm_expire) < t => read = shelf.pwm

\* C1 happens: GET_PWM was answered with the base value at the very instant
\* the expiry of a different override value is reached.
C1_Witness ==
    \E c \in Conns :
        /\ pc[c] = "loop" /\ IsCall(c, "get_pwm", 1) /\ Names(c, "A")
        /\ SHELVES["A"].pwm_override # None
        /\ SHELVES["A"].pwm_override.n # SHELVES["A"].pwm
        /\ SHELVES["A"].pwm_expire # None
        /\ Instant(SHELVES["A"].pwm_expire) = now
        /\ sent[c] = <<Frame("set_pwm", <<KnownId, Num(SHELVES["A"].pwm)>>)>>

\* Thread c handles SET_PWM_OVERRIDE for shelf s.
SetsOverride(c, s) == Handles(c) /\ IsCall(c, "set_pwm_override", 2) /\ Names(c, s)

\* C2: an acknowledged SET_PWM_OVERRIDE with a value in 0..100 stores the
\* override; no step other than a SET_PWM_OVERRIDE for the shelf changes a
\* stored override; and while an override is stored and its expiry has not
\* elapsed, reads give it.
C2_Override ==
    [][\A s \in ShelfIds :
        /\ \A c \in Conns :
              (/\ SetsOverride(c, s)
               /\ Arg(c, 2).t = "num" /\ Arg(c, 2).n \in 0..100
               /\ Wrote(c, Frame("ack", <<>>)))
              => SHELVES'[s].pwm_override = Arg(c, 2)
        /\ (/\ SHELVES[s].pwm_override # None
            /\ ~ \E c \in Conns : SetsOverride(c, s))
              => SHELVES'[s].pwm_override = SHELVES[s].pwm_override
        /\ (SHELVES'[s].pwm_override # None /\ ~Elapsed(s)')
              => pwm_get(SHELVES'[s], now') = SHELVES'[s].pwm_override.n
      ]_vars

\* C2 happens: SET_PWM_OVERRIDE(A, 40) was acknowledged and reads give 40,
\* not the base value.
C2_Witness ==
    \E c \in Conns :
        /\ pc[c] = "loop" /\ IsCall(c, "set_pwm_override", 2) /\ Names(c, "A")
        /\ Arg(c, 2) = Num(40)
        /\ sent[c] = <<Frame("ack", <<>>)>>
        /\ SHELVES["A"].pwm_override = Num(40)
        /\ SHELVES["A"].pwm # 40
        /\ pwm_get(SHELVES["A"], now) = 40

\* Thread c handles SET_PWM_EXPIRE for shelf s.
SetsExpire(c, s) == Handles(c) /\ IsCall(c, "set_pwm_expire", 2) /\ Names(c, s)

\* C3: the expiry is evaluated by each read and never written by time passing
\* or by a read: with an override and an expiry T stored, a read before T
\* gives the override and a read at or after T the base value; once T has
\* elapsed it stays stored and elapsed, and reads give the base value, until
\* a SET_PWM_EXPIRE for the shelf.
C3_LazyExpiry ==
    [][\A s \in ShelfIds :
        /\ now' # now => SHELVES' = SHELVES
        /\ \A c \in Conns :
              (Handles(c) /\ IsCall(c, "get_pwm", 1)) => SHELVES' = SHELVES
        /\ LET shelf == SHELVES'[s] IN
           (shelf.pwm_override # None /\ shelf.pwm_expire # None)
              => \A t \in 0..MaxTime :
                    pwm_get(shelf, t) = IF t < Instant(shelf.pwm_expire)
                                        THEN shelf.pwm_override.n
                                        ELSE shelf.pwm
        /\ (Elapsed(s) /\ ~ \E c \in Conns : SetsExpire(c, s))
              => /\ SHELVES'[s].pwm_expire = SHELVES[s].pwm_expire
                 /\ Elapsed(s)'
                 /\ pwm_get(SHELVES'[s], now') = SHELVES'[s].pwm
      ]_vars

\* C3 happens: with an override and an elapsed expiry still stored, GET_PWM
\* was answered with the base value.
C3_Witness ==
    \E c \in Conns :
        /\ pc[c] = "loop" /\ IsCall(c, "get_pwm", 1) /\ Names(c, "A")
        /\ SHELVES["A"].pwm_override # None
        /\ SHELVES["A"].pwm_override.n # SHELVES["A"].pwm
        /\ SHELVES["A"].pwm_expire # None
        /\ Instant(SHELVES["A"].pwm_expire) < now
        /\ sent[c] = <<Frame("set_pwm", <<KnownId, Num(SHELVES["A"].pwm)>>)>>

\* C4: whatever the interleaving of reset_connection calls on one socket,
\* the calls that do not remove it are no-ops that raise nothing: no thread
\* is ended by the KeyError of __SOCKETS__.remove.
C4_Claim == \A p \in Threads : died[p] # "KeyError"

\* C5: a thread running listen_client ends only through the loop's registry
\* test: whenever it has ended, its socket is not registered and no
\* exception escaped.
C5_Claim ==
    \A c \in Conns :
        pc[c] \in {"done", "raised"} => (c \notin SOCKETS /\ died[c] = "")

\* A value SET_RPM, SET_PWM_OVERRIDE or SET_PWM_EXPIRE accepts at this instant.
ValidValue(request, v) ==
    CASE request = "set_rpm" -> v.t = "num" /\ v.n >= 0
      [] request = "set_pwm_override" -> v = None \/ (v.t = "num" /\ v.n \in 0..100)
      [] request = "set_pwm_expire" -> v = None \/ (v.t = "date" /\ DateInstant(v) >= now)
      [] OTHER -> FALSE

\* A number or a timestamp one of the three setters rejects at this instant.
InvalidValue(request, v) ==
    CASE request = "set_rpm" -> v.t = "num" /\ v.n < 0
      [] request = "set_pwm_override" -> v.t = "num" /\ (v.n < 0 \/ v.n > 100)
      [] request = "set_pwm_expire" -> v.t = "date" /\ DateInstant(v) < now
      [] OTHER -> FALSE

Setters == {"set_rpm", "set_pwm_override", "set_pwm_expire"}
Getters == {"get_pwm", "get_rpm"}

\* What thread c received is well formed and, beyond PING, names shelf s.
WellFormed(c, s) ==
    \/ IsCall(c, "ping", 0)
    \/ \E g \in Getters : IsCall(c, g, 1) /\ Names(c, s)
    \/ \E k \in Setters : IsCall(c, k, 2) /\ Names(c, s) /\ ValidValue(k, Arg(c, 2))

\* The reply documented for what thread c received.
ExpectedReply(c, s) ==
    CASE req[c].request = "get_pwm" ->
            Frame("set_pwm", <<Str(s), Num(pwm_get(SHELVES[s], now))>>)
      [] req[c].request = "get_rpm" ->
            Frame("set_rpm", <<Str(s), Num(SHELVES[s].rpm)>>)
      [] OTHER -> Frame("ack", <<>>)

\* The field a setter request of thread c names holds the value after the step.
FieldWritten(c, s) ==
    LET v == Arg(c, 2) IN
    CASE req[c].request = "set_rpm" -> SHELVES'[s].rpm = v.n
      [] req[c].request = "set_pwm_override" -> SHELVES'[s].pwm_override = v
      [] req[c].request = "set_pwm_expire" ->
            IF v = None THEN SHELVES'[s].pwm_expire = None
            ELSE /\ SHELVES'[s].pwm_expire # None
                 /\ SHELVES'[s].pwm_expire.aware
                 /\ Instant(SHELVES'[s].pwm_expire) = DateInstant(v)
      [] OTHER -> TRUE

\* C6: the handling of a well-formed request naming a known shelf writes
\* exactly one frame, the documented reply (ACK, SET_PWM with the effective
\* pwm, SET_RPM with the rpm), a setter's field holding the value by then,
\* and leaves the connection registered and the thread at the loop test;
\* the only other outcome is a failed socket write, which writes no frame
\* and closes the connection without a reason.
C6_Replies ==
    [][\A c \in Conns : \A s \in ShelfIds :
        (Handles(c) /\ c \in SOCKETS /\ WellFormed(c, s))
        => /\ FieldWritten(c, s)
           /\ SOCKETS' = SOCKETS
           /\ \/ /\ Wrote(c, ExpectedReply(c, s))
                 /\ pc'[c] = "loop"
                 /\ died'[c] = ""
              \/ /\ sent'[c] = sent[c]
                 /\ pc'[c] = "reset_notify"
                 /\ rc'[c].msg = None
      ]_vars

\* C6 happens: GET_RPM(A) was answered by the one frame SET_RPM(A, 2200) on a
\* connection that is still registered, 2200 being neither the initial rpm
\* nor the base pwm.
C6_Witness ==
    \E c \in Conns :
        /\ pc[c] = "loop" /\ c \in SOCKETS
        /\ IsCall(c, "get_rpm", 1) /\ Names(c, "A")
        /\ SHELVES["A"].rpm = 2200
        /\ sent[c] = <<Frame("set_rpm", <<KnownId, Num(2200)>>)>>

\* The text of the domain error for an invalid value.
ValueErrorText(request, v) ==
    CASE request = "set_rpm" -> Text(<<Str("RPM cannot be below zero")>>)
      [] request = "set_pwm_override" -> Text(<<Str("PWM must be between 0 and 100")>>)
      [] request = "set_pwm_expire" -> Text(<<v, Str(" is in the past")>>)

\* C7: SET_RPM with a negative value, SET_PWM_OVERRIDE with a value outside
\* 0..100 and SET_PWM_EXPIRE with a timestamp before now raise a domain
\* error: the step writes no frame, leaves every field of every shelf as it
\* was, and closes the connection with the error's text.
C7_InvalidValue ==
    [][\A c \in Conns : \A s \in ShelfIds : \A k \in Setters :
        (/\ Handles(c) /\ c \in SOCKETS
         /\ IsCall(c, k, 2) /\ Names(c, s) /\ InvalidValue(k, Arg(c, 2)))
        => /\ SHELVES' = SHELVES
           /\ sent'[c] = sent[c]
           /\ pc'[c] = "reset_notify"
           /\ rc'[c].msg = ValueErrorText(k, Arg(c, 2))
      ]_vars

\* C7 happens: SET_RPM(A, -1) was refused with an rpm of 2200 stored; the
\* rpm is still 2200 and no frame was written.
C7_Witness ==
    \E c \in Conns :
        /\ pc[c] = "reset_notify"
        /\ IsCall(c, "set_rpm", 2) /\ Names(c, "A") /\ Arg(c, 2) = Num(-1)
        /\ rc[c].msg = Text(<<Str("RPM cannot be below zero")>>)
        /\ SHELVES["A"].rpm = 2200
        /\ sent[c] = <<>>

\* What thread c received is one of the five shelf requests, with the
\* arguments its handler takes, naming an id that is no shelf.
NamesUnknown(c) ==
    /\ \/ \E g \in Getters : IsCall(c, g, 1)
       \/ \E k \in Setters : IsCall(c, k, 2)
    /\ ~Found(SHELVES, Arg(c, 1))

\* C8: a shelf request naming an id that is not in the registry raises
\* ShelfNotFoundError: the step writes no frame, creates no shelf, leaves
\* every shelf as it was, and closes the connection with the error's text.
C8_UnknownShelf ==
    [][\A c \in Conns :
        (Handles(c) /\ c \in SOCKETS /\ NamesUnknown(c))
        => /\ SHELVES' = SHELVES
           /\ DOMAIN SHELVES' = ShelfIds
           /\ sent'[c] = sent[c]
           /\ pc'[c] = "reset_notify"
           /\ rc'[c].msg = Text(<<Str("Shelf "), Arg(c, 1), Str(" not found")>>)
      ]_vars

\* C8 happens: SET_RPM(X, 2200) was refused for the unknown shelf X.
C8_Witness ==
    \E c \in Conns :
        /\ pc[c] = "reset_notify"
        /\ IsCall(c, "set_rpm", 2) /\ Arg(c, 1) = UnknownId /\ Arg(c, 2) = Num(2200)
        /\ rc[c].msg = Text(<<Str("Shelf "), UnknownId, Str(" not found")>>)
        /\ DOMAIN SHELVES = ShelfIds
        /\ sent[c] = <<>>

\* C9: after a handler raised a domain error, the thread that closes the
\* connection with the error's text does not crash: no exception ends it
\* during that reset_connection call.
C9_Claim ==
    \A c \in Conns :
        (rc[c] # NoCall /\ DomainReason(rc[c].msg)) => pc[c] # "raised"

\* C10: a received message whose kind has no entry in the handler table
\* is refused with "Invalid request": once the lookup is done, the thread is
\* closing the connection with that reason and a notice, or has closed and
\* unregistered it; it never crashes.
C10_Claim ==
    \A c \in Conns :
        (/\ req[c] # NoReq /\ req[c].exc = NoExc
         /\ req[c].request \notin REQUEST_HANDLERS
         /\ pc[c] # "handle")
        => \/ /\ pc[c] \in {"reset_notify", "reset_close", "reset_remove"}
              /\ rc[c].msg = InvalidRequest /\ rc[c].notice
           \/ pc[c] \in {"loop", "done"} /\ c \notin SOCKETS

\* What thread c received is a request of the handler table whose
\* arguments are not as many as its handler takes.
ArityMismatch(c) ==
    /\ req[c] # NoReq /\ req[c].exc = NoExc
    /\ req[c].request \in REQUEST_HANDLERS
    /\ req[c].args.t = "tuple"
    /\ Len(req[c].args.items) # Arity(req[c].request)

\* Thread c is inside the reset_connection call it made for its own socket.
Resetting(c) == pc[c] \in {"reset_notify", "reset_close", "reset_remove"}

\* C11: a request of a known kind with too few or too many arguments writes
\* no reply and changes no shelf field; the loop calls reset_connection with
\* reason "Invalid call" and notice on, that call writes no frame but the
\* DISCONNECT carrying the reason, and it ends with the socket unregistered.
C11_InvalidCall ==
    [][\A c \in Conns :
        /\ (Handles(c) /\ c \in SOCKETS /\ ArityMismatch(c))
           => /\ SHELVES' = SHELVES
              /\ sent'[c] = sent[c]
              /\ pc'[c] = "reset_notify"
              /\ rc'[c] = [sock |-> c, msg |-> InvalidCall, notice |-> TRUE]
        /\ (Resetting(c) /\ pc'[c] # pc[c] /\ rc[c].msg = InvalidCall)
           => /\ SHELVES' = SHELVES
              /\ \/ sent'[c] = sent[c]
                 \/ /\ pc[c] = "reset_notify"
                    /\ Wrote(c, Frame("disconnect", <<InvalidCall>>))
              /\ pc'[c] = "loop" => c \notin SOCKETS'
      ]_vars

\* C11 happens: SET_PWM_OVERRIDE(A, 40, 40) was refused: the one frame
\* written is DISCONNECT "Invalid call", the socket is unregistered and no
\* override is stored.
C11_Witness ==
    \E c \in Conns :
        /\ pc[c] = "loop" /\ c \notin SOCKETS
        /\ IsCall(c, "set_pwm_override", 3)
        /\ sent[c] = <<Frame("disconnect", <<InvalidCall>>)>>
        /\ SHELVES["A"].pwm_override = None

\* C12: after an iteration met a socket timeout (FandTimeoutError, raised
\* by the read or by a handler's write), the loop has only continued: the
\* thread is back at the loop test, it made no reset_connection call and the
\* socket is still registered.
C12_Claim ==
    \A c \in Conns :
        caught[c] = "FandTimeoutError"
        => (pc[c] = "loop" /\ rc[c] = NoCall /\ c \in SOCKETS)

\* Thread c takes the step that calls com.recv.
Receives(c) == pc[c] = "recv" /\ pc'[c] # "recv"

\* The exception class is a connection reset.
IsReset(cls) == IsA(Exc(cls, None), "ConnectionResetError")

\* The exception class is a transport or corrupted-data error that is
\* neither a timeout nor a connection reset.
IsOtherError(cls) ==
    /\ IsA(Exc(cls, None), "CommunicationError")
    /\ ~IsA(Exc(cls, None), "TimeoutError")
    /\ ~IsReset(cls)

\* C13: when com.recv reports a connection reset, the loop calls
\* reset_connection with notice off: that call writes no frame to the
\* socket, it returns with the socket unregistered and the loop's next test
\* ends the loop; when the read or the handler's write raises another
\* transport or corrupted-data error, reset_connection is called with
\* notice on.
C13_ResetNoNotice ==
    [][\A c \in Conns :
        /\ (Receives(c) /\ c \in SOCKETS /\ IsReset(req'[c].exc.cls))
           => /\ pc'[c] = "reset_notify"
              /\ rc'[c] = [sock |-> c, msg |-> None, notice |-> FALSE]
              /\ caught'[c] = req'[c].exc.cls
              /\ sent'[c] = sent[c]
        /\ (Resetting(c) /\ pc'[c] # pc[c] /\ IsReset(caught[c]))
           => /\ sent'[c] = sent[c]
              /\ pc'[c] = "loop" => c \notin SOCKETS'
        /\ (pc[c] = "loop" /\ pc'[c] # "loop" /\ IsReset(caught[c]))
           => pc'[c] = "done"
        /\ ((Receives(c) \/ Handles(c)) /\ c \in SOCKETS /\ IsOtherError(caught'[c]))
           => /\ pc'[c] = "reset_notify"
              /\ rc'[c] = [sock |-> c, msg |-> None, notice |-> TRUE]
      ]_vars

\* C13 happens: the read reported a connection reset, and the loop has ended
\* with the socket unregistered and no frame written to it.
C13_Witness ==
    \E c \in Conns :
        /\ pc[c] = "done" /\ c \notin SOCKETS
        /\ req[c].exc.cls = "FandConnectionResetError"
        /\ caught[c] = "FandConnectionResetError"
        /\ sent[c] = <<>>

\* Thread c takes a step in which an error is met or handled: the read or
\* the handler call raises, or the thread is inside reset_connection.
ErrorStep(c) ==
    \/ Receives(c) /\ req'[c].exc # NoExc
    \/ Handles(c) /\ (pc'[c] \in {"reset_notify", "raised"})
    \/ Resetting(c) /\ pc'[c] # pc[c]

\* The step of thread c leaves every other connection, the accept loop and
\* the terminating flag as they were, and unregisters and closes no socket
\* but its own.
OnlyOwnConnection(c) ==
    /\ SOCKETS' \in {SOCKETS, SOCKETS \ {c}}
    /\ osopen' \in {osopen, osopen \ {c}}
    /\ \A d \in Conns \ {c} :
          /\ pc'[d] = pc[d] /\ req'[d] = req[d] /\ rc'[d] = rc[d]
          /\ sent'[d] = sent[d] /\ died'[d] = died[d] /\ caught'[d] = caught[d]
    /\ acceptor' = acceptor /\ acceptor = "run"
    /\ LISTEN \in SOCKETS' /\ LISTEN \in osopen'
    /\ TERMINATE' = FALSE

\* The shelf field a setter request writes.
FieldOf(request) ==
    CASE request = "set_rpm" -> "rpm"
      [] request = "set_pwm_override" -> "pwm_override"
      [] request = "set_pwm_expire" -> "pwm_expire"

\* The step of thread c handles a valid setter request whose ACK could not
\* be written: the field the request names is written and nothing else.
WroteThenFailed(c) ==
    /\ Handles(c)
    /\ \E s \in ShelfIds : \E k \in Setters :
          /\ IsCall(c, k, 2) /\ Names(c, s) /\ ValidValue(k, Arg(c, 2))
          /\ IsA(Exc(caught'[c], None), "CommunicationError")
          /\ FieldWritten(c, s)
          /\ \A f \in DOMAIN SHELVES[s] \ {FieldOf(k)} : SHELVES'[s][f] = SHELVES[s][f]
          /\ \A o \in ShelfIds \ {s} : SHELVES'[o] = SHELVES[o]

\* C14, as stated: a step in which a connection's thread meets or handles an
\* error closes at most that connection, leaves the others, the accept loop
\* and the terminating flag as they were, and changes no shelf field.
C14_Claim ==
    [][\A c \in Conns :
        ErrorStep(c) => (OnlyOwnConnection(c) /\ SHELVES' = SHELVES)
      ]_vars

\* C14, amended: as stated, except that a valid setter request whose ACK
\* write fails has written its field before the transport error is met.
C14_Isolation ==
    [][\A c \in Conns :
        ErrorStep(c)
        => /\ OnlyOwnConnection(c)
           /\ SHELVES' = SHELVES \/ WroteThenFailed(c)
      ]_vars

\* C14 happens: one connection was closed after a domain error while the
\* other, still registered, is being served.
C14_Witness ==
    \E c \in Conns : \E d \in Conns \ {c} :
        /\ pc[c] = "done" /\ c \notin SOCKETS
        /\ caught[c] = "ShelfNotFoundError"
        /\ d \in SOCKETS /\ pc[d] = "loop"
        /\ sent[d] = <<Frame("ack", <<>>)>>
        /\ acceptor = "run" /\ ~TERMINATE

\* The devices of class ty a reading located.
Located(reading, ty) == {d \in Serials : reading[d].type = ty}

\* The thresholds of a curve that temperature t has reached.
Reached(curve, t) == {th \in DOMAIN curve : th <= t}

\* The step function of a curve: the highest speed among the thresholds
\* reached, the 0-entry when none is.
StepValue(curve, t) ==
    IF Reached(curve, t) = {} THEN curve[0]
    ELSE SetMax({curve[th] : th \in Reached(curve, t)})

\* What the statement says a class contributes to the base pwm: its
\* 0-entry with no device located, else the step function at the highest
\* temperature of its devices.
ClaimedSpeed(curve, reading, ty) ==
    IF Located(reading, ty) = {} THEN curve[0]
    ELSE StepValue(curve, SetMax({reading[d].temperature : d \in Located(reading, ty)}))

\* C15: for every accepted set of curves and every reading of the devices,
\* the base pwm an update stores is the maximum over the classes of the
\* class's speed, a class with no device contributing exactly its 0-entry.
C15_Claim ==
    \A s \in DOMAIN SHELVES : \A reading \in CurveReadings :
        update(SHELVES[s], temperatures[s], reading).pwm
            = SetMax({ClaimedSpeed(temperatures[s][ty], reading, ty) : ty \in DeviceType})

\* Effective temperatures at which the curves are evaluated.
StepTemps == {-11, -10, -5, -1, 0, 29, 30, 34, 35, 40, 41, 42}

\* C16: for every accepted curve and every effective temperature t that has
\* reached a threshold, the class speed is a speed of the curve at a
\* threshold <= t and no such speed is higher; the fixture's HDD curve gives
\* 30 at t = 34 and 100 at t = 41.
C16_StepFunction ==
    \A s \in DOMAIN SHELVES : \A ty \in DeviceType : \A t \in StepTemps :
        LET curve == temperatures[s][ty]
            speed == ClassSpeed(curve, t)
        IN  /\ Reached(curve, t) # {}
               => /\ \E th \in Reached(curve, t) : speed = curve[th]
                  /\ \A th \in Reached(curve, t) : curve[th] <= speed
            /\ curve = HddTemps
               => ClassSpeed(curve, 34) = 30 /\ ClassSpeed(curve, 41) = 100

\* C16 happens: with a curve whose speeds do not grow with its thresholds
\* ({0: 50, 30: 20}), an update has stored 50, the speed of the lower
\* threshold.
C16_Witness ==
    /\ updated
    /\ "A" \in DOMAIN SHELVES
    /\ temperatures["A"]["HDD"] = (0 :> 50) @@ (30 :> 20)
    /\ SHELVES["A"].pwm = 50

\* C17: for every accepted curve and every effective temperature the class
\* speed is at least the curve's 0-entry, and below 0 it is the 0-entry.
C17_Claim ==
    \A s \in DOMAIN SHELVES : \A ty \in DeviceType : \A t \in StepTemps :
        LET curve == temperatures[s][ty] IN
        /\ ClassSpeed(curve, t) >= curve[0]
        /\ t < 0 => ClassSpeed(curve, t) = curve[0]

\* C18: every pwm read, and every value a SET_PWM reply carries, is within
\* 0..100, for every accepted set of curves.
C18_Claim ==
    /\ \A s \in DOMAIN SHELVES : pwm_get(SHELVES[s], now) \in 0..100
    /\ \A c \in Conns : \A i \in 1..Len(sent[c]) :
          sent[c][i].request = "set_pwm" => sent[c][i].args.items[2].n \in 0..100

\* C19: when a curve of a shelf lacks the 0 threshold, the shelf is not
\* registered, no device update or temperature read is ever performed, and
\* the daemon never gets to run (no shelf thread, no accept loop).
C19_NoZeroKey ==
    \A s \in ShelfIds :
        (\E ty \in DeviceType : 0 \notin DOMAIN temperatures[s][ty])
        => /\ s \notin DOMAIN SHELVES
           /\ ~updated
           /\ acceptor \in {"config", "raised"}
           /\ SOCKETS = {}

\* C19 happens: with an SSD curve without a 0 key, the constructor's
\* ShelfTemperatureBadValue has ended daemon: no shelf is registered and no
\* device was updated.
C19_Witness ==
    /\ acceptor = "raised"
    /\ 0 \notin DOMAIN temperatures["A"]["SSD"]
    /\ 0 \in DOMAIN temperatures["A"]["HDD"]
    /\ DOMAIN SHELVES = {}
    /\ ~updated

\* The values assigned to shelf s so far: the constructor's value, the base
\* values the update thread has stored, and the override.
Assigned(s) ==
    stored \cup (IF SHELVES[s].pwm_override = None THEN {}
                 ELSE {SHELVES[s].pwm_override.n})

\* The values that SET_PWM frames written to connection c carry.
Replied(c) ==
    {sent[c][i].args.items[2].n :
        i \in {j \in 1..Len(sent[c]) : sent[c][j].request = "set_pwm"}}

\* C20: while the update thread of a shelf stores base pwm values and the
\* connection threads serve GET_PWM for it, every value a getter has loaded
\* and every value a SET_PWM reply carries was assigned to the shelf at some
\* point (the initial value, a stored base value or the override): no read
\* sees a partially updated value.
C20_NoTornRead ==
    \A c \in Conns :
        /\ pc[c] = "get_send" => local[c][1].n \in Assigned(KnownId.s)
        /\ Replied(c) \subseteq Assigned(KnownId.s)

\* C20 happens: one connection has been sent a base value that the update
\* thread stored, while the other holds the value it loaded before that
\* store and the update thread is in the middle of its next assignment.
C20_Witness ==
    \E c, d \in Conns :
        /\ c # d
        /\ updated
        /\ Replied(c) = {30}
        /\ pc[d] = "get_send" /\ local[d] = <<Num(ShelfInit.pwm)>>
        /\ SHELVES[KnownId.s].pwm = 30
        /\ local[KnownId.s] # <<>>

\* C21: after SET_RPM(id, v) with v >= 0 was answered ACK on a connection,
\* and while no other SET_RPM for the shelf has been handled since, a
\* GET_RPM(id) handled on any connection that writes a reply writes
\* SET_RPM(id, v); updates of the shelf and PWM requests in between do not
\* change that.
C21_RpmKept ==
    [][\A d \in Conns : \A s \in ShelfIds :
        (/\ Handles(d) /\ IsCall(d, "get_rpm", 1) /\ Names(d, s)
         /\ acked[s] # None
         /\ sent'[d] # sent[d])
        => Wrote(d, Frame("set_rpm", <<Str(s), acked[s]>>))
      ]_vars

\* C21 happens: one connection had SET_RPM(A, 2200) acknowledged, the shelf
\* was updated and given an override, and GET_RPM(A) on the other connection
\* was answered SET_RPM(A, 2200).
C21_Witness ==
    \E c, d \in Conns :
        /\ c # d
        /\ pc[c] = "loop" /\ IsCall(c, "set_rpm", 2) /\ Arg(c, 2) = Num(2200)
        /\ sent[c] = <<Frame("ack", <<>>)>>
        /\ acked["A"] = Num(2200)
        /\ updated /\ SHELVES["A"].pwm # ShelfInit.pwm
        /\ SHELVES["A"].pwm_override = Num(40)
        /\ pc[d] = "loop" /\ IsCall(d, "get_rpm", 1)
        /\ sent[d] = <<Frame("set_rpm", <<KnownId, Num(2200)>>)>>

\* add_socket is called for connection c in this step.
Adds(c) == pc[c] = "idle" /\ c \notin osopen /\ c \in osopen'

\* C22: add_socket called while the terminating flag is set raises
\* TerminatingError and leaves the registry as it was, the socket not in it;
\* called while the flag is clear it registers the socket; and a registered
\* socket leaves the registry only by the removal that ends a
\* reset_connection call for it.
C22_AddSocket ==
    [][\A c \in Conns :
        /\ (Adds(c) /\ TERMINATE)
              => SOCKETS' = SOCKETS /\ c \notin SOCKETS' /\ acceptor' = "raised"
        /\ (Adds(c) /\ ~TERMINATE) => c \in SOCKETS' /\ acceptor' = "run"
        /\ (c \in SOCKETS /\ c \notin SOCKETS')
              => \E p \in Threads : pc[p] = "reset_remove" /\ rc[p].sock = c
                                     /\ pc'[p] # pc[p]
      ]_vars

\* C22 happens: a connection arrived after the flag was set and before the
\* hook closed the listening socket; add_socket refused it.
C22_Witness ==
    \E c \in Conns :
        /\ TERMINATE /\ acceptor = "raised"
        /\ c \in osopen /\ c \notin SOCKETS /\ pc[c] = "idle"

\* C23: once the termination hook has ended, no socket is registered any
\* more (sockets are not registered after the flag is set, so these are the
\* sockets registered when it was set), also when a connection thread
\* closes its socket while the hook runs.
C23_Claim == pc[HOOK] \in {"done", "raised"} => SOCKETS = {}

\* C24: the terminating flag is never cleared once set, it is assigned at
\* most once, and the cleanup hook is invoked exactly once in total, at the
\* assignment, however many calls of terminate() there are and whichever
\* threads make them.
C24_Claim ==
    [][/\ TERMINATE => TERMINATE'
       /\ (~TERMINATE /\ TERMINATE') => invoked' = 1
       /\ invoked' <= 1
      ]_vars

Fatal ==
    fatal \cup {"ShelfTemperatureBadValue" : s \in {x \in ShelfIds :
                                                   ~ShelfAccepts(temperatures[x])}}

\* C28: the process exits with status 0 only when no fatal condition was
\* met, and otherwise with the error of one that was.
C28_Claim ==
    /\ status = "0" => Fatal = {}
    /\ status \notin {"", "0"} => status \in Fatal

\* The accept loop has ended and every connection thread has left its loop
\* through the registry test.
Stopped == acceptor # "run" /\ \A c \in Clients : pc[c] \in {"idle", "done"}

\* C25: once the terminating flag is set, under fair scheduling the accept
\* loop eventually ends and every connection thread eventually leaves its
\* loop through the registry test.
C25_Claim == TERMINATE ~> Stopped

\* C27: once the update of a shelf has raised, the flag is set, and the
\* accept loop and every connection loop eventually stop, whether by their
\* loop test or by an exception.
C27_Claim ==
    (\E s \in ShelfIds : monitor[s].pc = "raised")
    ~> (/\ TERMINATE /\ acceptor # "run"
        /\ \A c \in Clients : pc[c] \in {"idle", "done", "raised"})

\* Thread p takes a step at position at.
Steps(p, at) == pc[p] = at /\ pc'[p] # at

\* C29: a reset_connection call on a registered socket first writes the
\* one DISCONNECT frame carrying the reason, or nothing when the send fails
\* or notice is off, the socket being still registered; then shuts down and
\* closes the handle, or leaves it open when that fails; then removes the
\* socket from the registry and returns. No step of it raises.
C29_Order ==
    [][\A c \in Conns :
        LET sock == rc[c].sock IN
        /\ Steps(c, "reset_notify")
              => /\ sock \in SOCKETS /\ SOCKETS' = SOCKETS /\ osopen' = osopen
                 /\ \/ sent' = sent
                    \/ /\ rc[c].notice
                       /\ sent' = [sent EXCEPT ![sock] =
                                     Append(@, Frame("disconnect", <<rc[c].msg>>))]
                 /\ pc'[c] = "reset_close"
        /\ Steps(c, "reset_close")
              => /\ sock \in SOCKETS /\ SOCKETS' = SOCKETS /\ sent' = sent
                 /\ osopen' \in {osopen, osopen \ {sock}}
                 /\ pc'[c] = "reset_remove"
        /\ Steps(c, "reset_remove")
              => /\ sock \in SOCKETS /\ SOCKETS' = SOCKETS \ {sock}
                 /\ osopen' = osopen /\ sent' = sent
                 /\ pc'[c] = "loop" /\ died'[c] = ""
      ]_vars

\* C29 happens: a message of an unknown kind made listen_client close the
\* connection with a notice; the notice could not be sent and the handle
\* could not be closed, and the socket was removed from the registry.
C29_Witness ==
    \E c \in Conns :
        /\ pc[c] = "loop" /\ req[c].request = WrongRequest
        /\ sent[c] = <<>> /\ c \in osopen
        /\ c \notin SOCKETS /\ died[c] = ""

\* Thread c calls reset_connection on its socket in this step: an except
\* clause of listen_client caught an exception, or the message's kind has no
\* handler.
Closes(c) ==
    /\ pc[c] \in {"recv", "handle"} /\ pc'[c] # pc[c]
    /\ \/ caught'[c] \notin {caught[c], "FandTimeoutError"}
       \/ pc[c] = "handle" /\ Hashable(req[c].request)
          /\ req[c].request \notin REQUEST_HANDLERS

\* C30: a reset_connection call on a socket that is not registered returns
\* at once: no frame is written, no handle is closed, the registry is as it
\* was and nothing is raised; the body of reset_connection is only ever
\* entered for a registered socket.
C30_NoOp ==
    [][/\ \A p \in Threads :
            (pc[p] # "reset_notify" /\ pc'[p] = "reset_notify") => rc'[p].sock \in SOCKETS
       /\ (pc[HOOK] = "next" /\ todo' # todo /\ (todo \ todo') \cap SOCKETS = {})
            => pc'[HOOK] = "next" /\ UNCHANGED <<SOCKETS, osopen, sent, died, rc>>
       /\ \A c \in Conns :
            (Closes(c) /\ c \notin SOCKETS)
            => pc'[c] = "loop" /\ UNCHANGED <<SOCKETS, osopen, sent, died, rc>>
      ]_vars

\* C30 happens: the hook closed a connection, notice included, and
\* unregistered it; the connection's thread then read the end of the stream
\* and made the second reset_connection call (without notice) for the
\* socket, which returned at once; no thread was ended by an exception.
C30_Witness ==
    \E c \in Conns :
        /\ pc[c] = "loop" /\ c \notin SOCKETS
        /\ caught[c] = "FandConnectionResetError"
        /\ sent[c] = <<Frame("disconnect", <<None>>)>>
        /\ pc[HOOK] \in {"next", "done"} /\ rc[HOOK] = NoCall
        /\ died[HOOK] = "" /\ died[c] = ""

\* --------------------------------------------------- the frame on the wire

\* A com.send call has run and bytes of it reached the wire.
Wrote1 == wire.pc \in {"recv", "done"} /\ wire.call # None /\ wire.out.count > 0

\* A com.recv call has run.
Read1 == wire.pc = "done" /\ wire.res # None

\* The header a socket holds is whole, with the magic and a length in digits.
GoodHeader(s) ==
    /\ Len(s.header) = HEADER_SIZE
    /\ SubSeq(s.header, 1, HEADER_MAGIC_SIZE) = HEADER_MAGIC
    /\ int16(SubSeq(s.header, HEADER_MAGIC_SIZE + 1, HEADER_SIZE)) # -1

\* The length a whole header states.
Declared(s) == int16(SubSeq(s.header, HEADER_MAGIC_SIZE + 1, HEADER_SIZE))

\* C33: every frame send writes starts with an 8-byte header, the 4-byte
\* magic followed by exactly 4 zero-padded lowercase hex digits whose value
\* is the payload's byte count, for every payload size, payloads of 65536
\* bytes or more included.
C33_Claim ==
    Wrote1 =>
        LET header == wire.out.header
            digits == SubSeq(header, HEADER_MAGIC_SIZE + 1, Len(header))
        IN  /\ Len(header) = HEADER_SIZE
            /\ SubSeq(header, 1, HEADER_MAGIC_SIZE) = HEADER_MAGIC
            /\ \A i \in 1..Len(digits) : \E k \in 1..16 : HexChars[k] = digits[i]
            /\ int16(digits) = wire.out.size

\* C31: for every request kind other than DISCONNECT and every serializable
\* argument tuple, recv applied to the bytes that send wrote for (kind, args)
\* returns exactly (kind, args).
C31_Claim ==
    (/\ wire.pc = "done"
     /\ wire.call # None
     /\ wire.call.request # "disconnect"
     /\ wire.call.pickling = "ok"
     /\ wire.call.how = "ok")
    => /\ wire.res # None
       /\ wire.res.got = Received(NoExc, wire.call.request, Tuple(wire.call.items))

\* C32: recv rejects as corrupted data every frame whose declared length
\* differs from the actual payload length, smaller or larger: it never
\* returns a message decoded from such a frame and never consumes bytes of
\* the following frame as part of it.
C32_Claim ==
    (/\ Read1
     /\ wire.call = None
     /\ wire.stream.io = "data" /\ wire.stream.dio = "data"
     /\ GoodHeader(wire.stream)
     /\ Declared(wire.stream) # wire.stream.size)
    => /\ wire.res.got.exc.cls = "CorruptedDataError"
       /\ wire.res.beyond = 0

\* C34: send performs exactly one write of header+payload per call and never
\* resumes a partial write: when the write reports fewer bytes than the whole
\* frame, send fails with a send/receive error and writes nothing more; when
\* it reports the whole frame, send succeeds; a serialization failure is
\* reported as a distinct error before any byte is written.
C34_Claim ==
    (wire.pc \in {"recv", "done"} /\ wire.call # None) =>
        LET out == wire.out
            whole == Len(out.header) + out.size
        IN  IF wire.call.pickling # "ok"
            THEN /\ out.exc # NoExc
                 /\ ~IsA(out.exc, "OSError")
                 /\ out.writes = 0 /\ out.count = 0
            ELSE /\ out.writes = 1
                 /\ wire.call.how \in {"ok", "short"} =>
                       /\ out.count < whole => out.exc.cls = "SendReceiveError"
                       /\ out.count = whole => out.exc = NoExc

\* C35: recv maps what it reads to one condition: zero header bytes, or a
\* decoded DISCONNECT message, gives a connection reset; a header of 1..7
\* bytes, or a magic different from the constant whatever the length field
\* contains, gives corrupted data; a socket timeout gives the timeout
\* condition. recv never returns a message of kind DISCONNECT.
C35_Claim ==
    (Read1 /\ wire.call = None) =>
        LET s == wire.stream
            cls == wire.res.got.exc.cls
        IN  /\ s.io = "timeout" => cls = "FandTimeoutError"
            /\ (s.io = "data" /\ GoodHeader(s) /\ s.dio = "timeout")
                  => cls = "FandTimeoutError"
            /\ (s.io = "data" /\ Len(s.header) = 0) => cls = "FandConnectionResetError"
            /\ (s.io = "data" /\ Len(s.header) \in 1..(HEADER_SIZE - 1))
                  => cls = "CorruptedDataError"
            /\ (/\ s.io = "data"
                /\ Len(s.header) = HEADER_SIZE
                /\ SubSeq(s.header, 1, HEADER_MAGIC_SIZE) # HEADER_MAGIC)
                  => cls = "CorruptedDataError"
            /\ (/\ s.io = "data" /\ s.dio = "data"
                /\ GoodHeader(s) /\ Declared(s) = s.size
                /\ s.data.request = "disconnect")
                  => cls = "FandConnectionResetError"
            /\ wire.res.got.request # "disconnect"

\* ------------------------------------------------------ reads and clears

\* C36: a pwm read is atomic with respect to the handlers that set or clear
\* the override and the expiry: a GET_PWM served concurrently with
\* SET_PWM_OVERRIDE(None) or SET_PWM_EXPIRE(None) on the same shelf replies
\* SET_PWM with a number, never the unset marker, and the GET_PWM never fails
\* nor closes its connection.
C36_Claim ==
    \A c \in Conns :
        /\ \A i \in 1..Len(sent[c]) :
              sent[c][i].request = "set_pwm" => sent[c][i].args.items[2].t = "num"
        /\ req[c].request = "get_pwm" => caught[c] # "TypeError"

\* --------------------------------------------------------- after shutdown

\* Nothing is left to run after terminate(): the hook has ended, the accept
\* loop has ended and no connection thread is inside its loop.
Quiescent ==
    /\ TERMINATE
    /\ pc[HOOK] \in {"done", "raised"}
    /\ acceptor # "run"
    /\ \A c \in Clients : pc[c] \in {"idle", "done", "raised"}

\* C38: no socket outlives shutdown open: a client socket accepted while the
\* process is terminating ends closed and unregistered; in every quiescent
\* state after terminate() the registry is empty and no accepted OS socket
\* is still open.
C38_Claim == Quiescent => SOCKETS = {} /\ osopen \cap Conns = {}

\* -------------------------------------------------------- the worker pool

\* Connection c was accepted and its request loop submitted.
Accepted(c) ==
    \/ c \in pool.running \cup pool.closed
    \/ \E i \in 1..Len(pool.queue) : pool.queue[i] = c

\* C37: every accepted and registered connection eventually gets its own
\* running request loop and has its first request answered, whatever the
\* number of shelves and of other connections open at the same time: an
\* open, idle connection never prevents a later connection from being served.
C37_Claim ==
    \A c \in PoolConns : Accepted(c) ~> (c \in pool.served \/ c \in pool.closed)

\* ------------------------------------------------------------ the fields

\* The fields of shelf s a step changes.
Changed(s) ==
    {f \in {"pwm", "rpm", "pwm_override", "pwm_expire"} :
        SHELVES'[s][f] # SHELVES[s][f]}

\* C39: every shelf operation writes only its own field: the control update
\* writes only the base pwm; SET_RPM writes only rpm; SET_PWM_OVERRIDE writes
\* only pwm_override and keeps the stored expiry, even one that has already
\* elapsed; SET_PWM_EXPIRE writes only pwm_expire; PING, GET_PWM and GET_RPM
\* write nothing; no request adds or removes a shelf of the shelf registry.
C39_Frame ==
    [][/\ DOMAIN SHELVES' = DOMAIN SHELVES
       /\ \A s \in ShelfIds :
             /\ (\A c \in Conns : ~Handles(c)) => Changed(s) \subseteq {"pwm"}
             /\ \A c \in Conns :
                   Handles(c) =>
                      Changed(s) \subseteq
                         (IF req[c].request \in Setters
                          THEN {FieldOf(req[c].request)} ELSE {})
      ]_vars

\* C39 happens: after a control update, SET_PWM_OVERRIDE was answered ACK on
\* a shelf whose stored expiry had already elapsed; the expiry is still
\* stored, the rpm a SET_RPM wrote and the base pwm the update wrote are
\* kept.
C39_Witness ==
    \E c \in Conns :
        /\ pc[c] = "loop" /\ IsCall(c, "set_pwm_override", 2) /\ Names(c, "A")
        /\ sent[c] = <<Frame("ack", <<>>)>>
        /\ SHELVES["A"].pwm_override = Num(40)
        /\ SHELVES["A"].pwm_expire # None
        /\ Instant(SHELVES["A"].pwm_expire) < now
        /\ SHELVES["A"].rpm = 2200
        /\ updated /\ SHELVES["A"].pwm # ShelfInit.pwm

\* ------------------------------------------------------------ a new shelf

\* C40: a newly constructed shelf starts fail-safe: until its first control
\* update completes and absent any request that sets a field, pwm reads 100,
\* rpm reads 0, and no override and no expiry are set.
C40_FailSafe ==
    ~updated =>
        /\ \A s \in DOMAIN SHELVES :
              /\ pwm_get(SHELVES[s], now) = 100
              /\ SHELVES[s].rpm = 0
              /\ SHELVES[s].pwm_override = None
              /\ SHELVES[s].pwm_expire = None
        /\ \A c \in Conns : \A i \in 1..Len(sent[c]) :
              sent[c][i].request = "set_pwm" => sent[c][i].args.items[2] = Num(100)

\* C40 happens: the shelf was constructed and registered, and a GET_PWM was
\* answered before the shelf's first update.
C40_Witness ==
    \E c \in Conns :
        /\ ~updated /\ "A" \in DOMAIN SHELVES
        /\ pc[c] = "loop" /\ IsCall(c, "get_pwm", 1)
        /\ sent[c] = <<Frame("set_pwm", <<KnownId, Num(100)>>)>>

====
